---------------------------- MODULE Spec2Model ----------------------------
(***************************************************************************)
(* A model of src/http_server.py: a threaded HTTP/1.1 file server.         *)
(*                                                                         *)
(* Text and bytes are sequences of one-character strings, so that          *)
(* splitting, prefix tests, percent-decoding and the Content-Length        *)
(* figure are computed on characters, as the code computes them.  A        *)
(* character the TLA+ string syntax cannot write is a token such as        *)
(* "\\x00" (NUL) or "\\ufffd" (U+FFFD).                                    *)
(***************************************************************************)
EXTENDS Integers, Sequences, FiniteSets, TLC

(***************************************************************************)
(* Bounds of the model.                                                    *)
(***************************************************************************)
\* Connections the accept loop hands to handler threads.
NumConns == 2
\* Last value of the wall clock (seconds since the epoch) read by formatdate.
MaxClock == 1
\* URI path segments of the requests that SpecResolve enumerates.
MaxSegs == 3
\* Exceptions the accept loop catches and logs in SpecServer.
MaxAcceptErrors == 1
\* Connections on which sendall fails.
MaxSendErrors == 1

(***************************************************************************)
(* Configuration constants (src/http_server.py lines 11-26).               *)
(***************************************************************************)
SERVER_NAME == <<"B","o","b","s","D","i","s","c","o","u","n","t","S","e","r","v","e","r","/","2",".","1">>

DEFAULT_MIME_TYPE == <<"a","p","p","l","i","c","a","t","i","o","n","/","o","c","t","e","t","-","s","t","r","e","a","m">>

TEXT_HTML == <<"t","e","x","t","/","h","t","m","l">>

\* MIME_TYPES as a set of <<extension, content type>> pairs.
MIME_TYPES ==
  { << <<"h","t","m","l">>, TEXT_HTML >>,
    << <<"h","t","m">>, TEXT_HTML >>,
    << <<"c","s","s">>, <<"t","e","x","t","/","c","s","s">> >>,
    << <<"j","s">>, <<"a","p","p","l","i","c","a","t","i","o","n","/","j","a","v","a","s","c","r","i","p","t">> >>,
    << <<"j","s","o","n">>, <<"a","p","p","l","i","c","a","t","i","o","n","/","j","s","o","n">> >>,
    << <<"p","n","g">>, <<"i","m","a","g","e","/","p","n","g">> >>,
    << <<"j","p","g">>, <<"i","m","a","g","e","/","j","p","e","g">> >>,
    << <<"j","p","e","g">>, <<"i","m","a","g","e","/","j","p","e","g">> >>,
    << <<"g","i","f">>, <<"i","m","a","g","e","/","g","i","f">> >>,
    << <<"t","x","t">>, <<"t","e","x","t","/","p","l","a","i","n">> >> }

CRLF == <<"\r","\n">>

CRLFCRLF == <<"\r","\n","\r","\n">>

(***************************************************************************)
(* Python string operations used by the code.                              *)
(***************************************************************************)
\* s.startswith(p)
startswith(s, p) == Len(p) <= Len(s) /\ SubSeq(s, 1, Len(p)) = p

\* s.endswith(p)
endswith(s, p) == Len(p) <= Len(s) /\ SubSeq(s, Len(s) - Len(p) + 1, Len(s)) = p

\* p in s (substring test)
contains(s, p) == \E i \in 1..(Len(s) - Len(p) + 1) : SubSeq(s, i, i + Len(p) - 1) = p

\* Index of the first occurrence of p in s at or after position i, 0 if none.
find(s, p, i) ==
  LET hits == { k \in i..(Len(s) - Len(p) + 1) :
                  s[k] = p[1] /\ SubSeq(s, k, k + Len(p) - 1) = p }
  IN IF hits = { } THEN 0 ELSE CHOOSE k \in hits : \A j \in hits : k <= j

\* The pieces of s from position start on, cut at the separators found
\* scanning left to right: hits holds every position where sep occurs, and
\* an occurrence overlapping the previous separator is passed over.
RECURSIVE split_from(_, _, _, _)
split_from(s, sep, start, hits) ==
  LET later == { k \in hits : k >= start } IN
  IF later = { } THEN << SubSeq(s, start, Len(s)) >>
  ELSE LET i == CHOOSE k \in later : \A j \in later : k <= j
       IN << SubSeq(s, start, i - 1) >> \o split_from(s, sep, i + Len(sep), hits)

\* s.split(sep) for a non-empty separator: the list of pieces, empty ones kept.
split(s, sep) ==
  split_from(s, sep, 1,
             { k \in 1..(Len(s) - Len(sep) + 1) :
                 s[k] = sep[1] /\ SubSeq(s, k, k + Len(sep) - 1) = sep })

\* sep.join(parts)
RECURSIVE join(_, _)
join(sep, parts) ==
  IF parts = << >> THEN << >>
  ELSE IF Len(parts) = 1 THEN parts[1]
  ELSE parts[1] \o sep \o join(sep, Tail(parts))

\* s.lstrip(ch)
RECURSIVE lstrip(_, _)
lstrip(s, ch) ==
  IF s # << >> /\ s[1] = ch THEN lstrip(Tail(s), ch) ELSE s

\* The characters str.split() treats as whitespace among those latin-1 decodes to.
WHITESPACE ==
  { " ", "\t", "\n", "\r", "\f", "\\x0b", "\\x1c", "\\x1d", "\\x1e", "\\x1f",
    "\\x85", "\\xa0" }

\* s.split(): maximal runs of non-whitespace characters.
RECURSIVE ws_tokens(_, _)
ws_tokens(s, start) ==
  LET names == { k \in start..Len(s) : s[k] \notin WHITESPACE } IN
  IF names = { } THEN << >>
  ELSE LET first == CHOOSE k \in names : \A j \in names : k <= j
           gaps == { k \in first..Len(s) : s[k] \in WHITESPACE }
           end == IF gaps = { } THEN Len(s) + 1
                  ELSE CHOOSE k \in gaps : \A j \in gaps : k <= j
       IN << SubSeq(s, first, end - 1) >> \o ws_tokens(s, end)

\* The names of s, the first of them continuing the name cur read before s.
split_ws(s, cur) == ws_tokens(cur \o s, 1)

UPPER == <<"A","B","C","D","E","F","G","H","I","J","K","L","M","N","O","P","Q","R","S","T","U","V","W","X","Y","Z">>

LOWER == <<"a","b","c","d","e","f","g","h","i","j","k","l","m","n","o","p","q","r","s","t","u","v","w","x","y","z">>

DIGITS == <<"0","1","2","3","4","5","6","7","8","9">>

\* str(n) for n >= 0: the decimal digits, no leading zero.
RECURSIVE str(_)
str(n) ==
  IF n < 10 THEN << DIGITS[n + 1] >>
  ELSE Append(str(n \div 10), DIGITS[(n % 10) + 1])

\* Two decimal digits, zero padded (the %02d fields of formatdate).
two_digits(n) == << DIGITS[(n \div 10) + 1], DIGITS[(n % 10) + 1] >>

(***************************************************************************)
(* urllib.parse.unquote (line 71).                                         *)
(***************************************************************************)
ASCII ==
  <<"\\x00","\\x01","\\x02","\\x03","\\x04","\\x05","\\x06","\\x07","\\x08","\t","\n","\\x0b","\f","\r","\\x0e","\\x0f",
     "\\x10","\\x11","\\x12","\\x13","\\x14","\\x15","\\x16","\\x17","\\x18","\\x19","\\x1a","\\x1b","\\x1c","\\x1d","\\x1e","\\x1f",
     " ","!","\"","#","$","%","&","'","(",")","*","+",",","-",".","/",
     "0","1","2","3","4","5","6","7","8","9",":",";","<","=",">","?",
     "@","A","B","C","D","E","F","G","H","I","J","K","L","M","N","O",
     "P","Q","R","S","T","U","V","W","X","Y","Z","[","\\","]","^","_",
     "\\x60","a","b","c","d","e","f","g","h","i","j","k","l","m","n","o",
     "p","q","r","s","t","u","v","w","x","y","z","{","|","}","~","\\x7f" >>

HEXDIGITS == <<"0","1","2","3","4","5","6","7","8","9","a","b","c","d","e","f">>

HEXUPPER == <<"0","1","2","3","4","5","6","7","8","9","A","B","C","D","E","F">>

\* The digits of urllib's _hexdig, in either case.
is_hex(c) == \E k \in 1..16 : HEXDIGITS[k] = c \/ HEXUPPER[k] = c

hex_value(c) == (CHOOSE k \in 1..16 : HEXDIGITS[k] = c \/ HEXUPPER[k] = c) - 1

\* n written with the given number of hexadecimal digits.
RECURSIVE hex_digits(_, _)
hex_digits(n, width) ==
  IF width = 0 THEN ""
  ELSE hex_digits(n \div 16, width - 1) \o HEXDIGITS[(n % 16) + 1]

\* The character of a code point: an ASCII character as the table has it,
\* any other as the token \xhh, \uhhhh or \Uhhhhhhhh.
chr(cp) ==
  IF cp < 128 THEN ASCII[cp + 1]
  ELSE IF cp < 256 THEN "\\x" \o hex_digits(cp, 2)
  ELSE IF cp < 65536 THEN "\\u" \o hex_digits(cp, 4)
  ELSE "\\U" \o hex_digits(cp, 8)

is_ascii(c) == \E k \in 1..128 : ASCII[k] = c

ord_ascii(c) == (CHOOSE k \in 1..128 : ASCII[k] = c) - 1

\* unquote_to_bytes on a run of ASCII characters: every %XY with two
\* hexadecimal digits becomes the byte XY; a % not followed by two hexadecimal
\* digits is kept as it is, and so is every other character.
RECURSIVE unquote_to_bytes(_)
unquote_to_bytes(s) ==
  IF s = << >> THEN << >>
  ELSE IF s[1] = "%" /\ Len(s) >= 3 /\ is_hex(s[2]) /\ is_hex(s[3])
       THEN << 16 * hex_value(s[2]) + hex_value(s[3]) >>
            \o unquote_to_bytes(SubSeq(s, 4, Len(s)))
       ELSE << ord_ascii(s[1]) >> \o unquote_to_bytes(Tail(s))

\* How many bytes follow the first byte of a UTF-8 sequence (0: the byte
\* cannot start one).
utf8_following(b1) ==
  IF b1 >= 194 /\ b1 <= 223 THEN 1
  ELSE IF b1 >= 224 /\ b1 <= 239 THEN 2
  ELSE IF b1 >= 240 /\ b1 <= 244 THEN 3
  ELSE 0

\* Whether byte x may stand at position k (2 to 4) of a sequence that b1
\* starts: overlong forms, surrogates and code points past U+10FFFF are
\* excluded by the range of the second byte.
utf8_continues(b1, k, x) ==
  IF k = 2
  THEN /\ x >= (IF b1 = 224 THEN 160 ELSE IF b1 = 240 THEN 144 ELSE 128)
       /\ x <= (IF b1 = 237 THEN 159 ELSE IF b1 = 244 THEN 143 ELSE 191)
  ELSE x >= 128 /\ x <= 191

\* bytes.decode('utf-8', 'replace'), as code points: a byte sequence that is
\* not valid becomes one U+FFFD for its longest prefix that could start a
\* valid sequence (one byte at least), and decoding goes on after it.
RECURSIVE utf8_decode(_)
utf8_decode(b) ==
  IF b = << >> THEN << >>
  ELSE LET b1 == b[1] IN
       IF b1 < 128 THEN << b1 >> \o utf8_decode(Tail(b))
       ELSE LET need == utf8_following(b1)
                ok(k) == k <= Len(b) /\ utf8_continues(b1, k, b[k])
                good == IF need = 0 \/ ~ ok(2) THEN 0
                        ELSE IF need = 1 \/ ~ ok(3) THEN 1
                        ELSE IF need = 2 \/ ~ ok(4) THEN 2
                        ELSE 3
                cp == IF need = 1 THEN (b1 - 192) * 64 + (b[2] - 128)
                      ELSE IF need = 2
                      THEN (b1 - 224) * 4096 + (b[2] - 128) * 64 + (b[3] - 128)
                      ELSE (b1 - 240) * 262144 + (b[2] - 128) * 4096
                           + (b[3] - 128) * 64 + (b[4] - 128)
            IN IF need > 0 /\ good = need
               THEN << cp >> \o utf8_decode(SubSeq(b, need + 2, Len(b)))
               ELSE << 65533 >> \o utf8_decode(SubSeq(b, good + 2, Len(b)))

\* The length of the longest prefix of s made of ASCII characters, the
\* first n of them known to be.
ascii_run(s, n) ==
  LET others == { k \in (n + 1)..Len(s) : ~ is_ascii(s[k]) } IN
  IF others = { } THEN Len(s)
  ELSE (CHOOSE k \in others : \A j \in others : k <= j) - 1

\* The loop of unquote: every run of ASCII characters is turned into bytes
\* and decoded as UTF-8; the characters between the runs are kept.
RECURSIVE unquote_runs(_)
unquote_runs(s) ==
  IF s = << >> THEN << >>
  ELSE LET n == ascii_run(s, 0) IN
       IF n = 0 THEN << s[1] >> \o unquote_runs(Tail(s))
       ELSE LET cps == utf8_decode(unquote_to_bytes(SubSeq(s, 1, n))) IN
            [ i \in 1..Len(cps) |-> chr(cps[i]) ]
            \o unquote_runs(SubSeq(s, n + 1, Len(s)))

\* unquote(s): a string without % is returned as it is; in any other, the
\* percent-encoded bytes are decoded as UTF-8 with errors='replace'.  It
\* raises nothing.
unquote(s) ==
  IF \A i \in 1..Len(s) : s[i] # "%" THEN s ELSE unquote_runs(s)

(***************************************************************************)
(* str.lower (line 31), with the case data of the interpreter's Unicode    *)
(* database (version 14.0.0).                                              *)
(***************************************************************************)
\* <<first, last, step, offset>>: every step-th code point from first to last
\* has the lowercase code point that lies offset further.
LOWER_RULES ==
  <<
     <<65,90,1,32>>, <<192,214,1,32>>, <<216,222,1,32>>, <<256,302,2,1>>, <<306,310,2,1>>,
     <<313,327,2,1>>, <<330,374,2,1>>, <<376,376,1,-121>>, <<377,381,2,1>>, <<385,385,1,210>>,
     <<386,388,2,1>>, <<390,390,1,206>>, <<391,391,1,1>>, <<393,394,1,205>>, <<395,395,1,1>>,
     <<398,398,1,79>>, <<399,399,1,202>>, <<400,400,1,203>>, <<401,401,1,1>>, <<403,403,1,205>>,
     <<404,404,1,207>>, <<406,406,1,211>>, <<407,407,1,209>>, <<408,408,1,1>>, <<412,412,1,211>>,
     <<413,413,1,213>>, <<415,415,1,214>>, <<416,420,2,1>>, <<422,422,1,218>>, <<423,423,1,1>>,
     <<425,425,1,218>>, <<428,428,1,1>>, <<430,430,1,218>>, <<431,431,1,1>>, <<433,434,1,217>>,
     <<435,437,2,1>>, <<439,439,1,219>>, <<440,440,1,1>>, <<444,444,1,1>>, <<452,452,1,2>>,
     <<453,453,1,1>>, <<455,455,1,2>>, <<456,456,1,1>>, <<458,458,1,2>>, <<459,475,2,1>>,
     <<478,494,2,1>>, <<497,497,1,2>>, <<498,500,2,1>>, <<502,502,1,-97>>, <<503,503,1,-56>>,
     <<504,542,2,1>>, <<544,544,1,-130>>, <<546,562,2,1>>, <<570,570,1,10795>>, <<571,571,1,1>>,
     <<573,573,1,-163>>, <<574,574,1,10792>>, <<577,577,1,1>>, <<579,579,1,-195>>, <<580,580,1,69>>,
     <<581,581,1,71>>, <<582,590,2,1>>, <<880,882,2,1>>, <<886,886,1,1>>, <<895,895,1,116>>,
     <<902,902,1,38>>, <<904,906,1,37>>, <<908,908,1,64>>, <<910,911,1,63>>, <<913,929,1,32>>,
     <<932,939,1,32>>, <<975,975,1,8>>, <<984,1006,2,1>>, <<1012,1012,1,-60>>, <<1015,1015,1,1>>,
     <<1017,1017,1,-7>>, <<1018,1018,1,1>>, <<1021,1023,1,-130>>, <<1024,1039,1,80>>, <<1040,1071,1,32>>,
     <<1120,1152,2,1>>, <<1162,1214,2,1>>, <<1216,1216,1,15>>, <<1217,1229,2,1>>, <<1232,1326,2,1>>,
     <<1329,1366,1,48>>, <<4256,4293,1,7264>>, <<4295,4295,1,7264>>, <<4301,4301,1,7264>>, <<5024,5103,1,38864>>,
     <<5104,5109,1,8>>, <<7312,7354,1,-3008>>, <<7357,7359,1,-3008>>, <<7680,7828,2,1>>, <<7838,7838,1,-7615>>,
     <<7840,7934,2,1>>, <<7944,7951,1,-8>>, <<7960,7965,1,-8>>, <<7976,7983,1,-8>>, <<7992,7999,1,-8>>,
     <<8008,8013,1,-8>>, <<8025,8031,2,-8>>, <<8040,8047,1,-8>>, <<8072,8079,1,-8>>, <<8088,8095,1,-8>>,
     <<8104,8111,1,-8>>, <<8120,8121,1,-8>>, <<8122,8123,1,-74>>, <<8124,8124,1,-9>>, <<8136,8139,1,-86>>,
     <<8140,8140,1,-9>>, <<8152,8153,1,-8>>, <<8154,8155,1,-100>>, <<8168,8169,1,-8>>, <<8170,8171,1,-112>>,
     <<8172,8172,1,-7>>, <<8184,8185,1,-128>>, <<8186,8187,1,-126>>, <<8188,8188,1,-9>>, <<8486,8486,1,-7517>>,
     <<8490,8490,1,-8383>>, <<8491,8491,1,-8262>>, <<8498,8498,1,28>>, <<8544,8559,1,16>>, <<8579,8579,1,1>>,
     <<9398,9423,1,26>>, <<11264,11311,1,48>>, <<11360,11360,1,1>>, <<11362,11362,1,-10743>>, <<11363,11363,1,-3814>>,
     <<11364,11364,1,-10727>>, <<11367,11371,2,1>>, <<11373,11373,1,-10780>>, <<11374,11374,1,-10749>>, <<11375,11375,1,-10783>>,
     <<11376,11376,1,-10782>>, <<11378,11378,1,1>>, <<11381,11381,1,1>>, <<11390,11391,1,-10815>>, <<11392,11490,2,1>>,
     <<11499,11501,2,1>>, <<11506,11506,1,1>>, <<42560,42604,2,1>>, <<42624,42650,2,1>>, <<42786,42798,2,1>>,
     <<42802,42862,2,1>>, <<42873,42875,2,1>>, <<42877,42877,1,-35332>>, <<42878,42886,2,1>>, <<42891,42891,1,1>>,
     <<42893,42893,1,-42280>>, <<42896,42898,2,1>>, <<42902,42920,2,1>>, <<42922,42922,1,-42308>>, <<42923,42923,1,-42319>>,
     <<42924,42924,1,-42315>>, <<42925,42925,1,-42305>>, <<42926,42926,1,-42308>>, <<42928,42928,1,-42258>>, <<42929,42929,1,-42282>>,
     <<42930,42930,1,-42261>>, <<42931,42931,1,928>>, <<42932,42946,2,1>>, <<42948,42948,1,-48>>, <<42949,42949,1,-42307>>,
     <<42950,42950,1,-35384>>, <<42951,42953,2,1>>, <<42960,42960,1,1>>, <<42966,42968,2,1>>, <<42997,42997,1,1>>,
     <<65313,65338,1,32>>, <<66560,66599,1,40>>, <<66736,66771,1,40>>, <<66928,66938,1,39>>, <<66940,66954,1,39>>,
     <<66956,66962,1,39>>, <<66964,66965,1,39>>, <<68736,68786,1,64>>, <<71840,71871,1,32>>, <<93760,93791,1,32>>,
     <<125184,125217,1,34>> >>

\* Ranges of the code points that have a case and are not case-ignorable.
CASED_RANGES ==
  <<
     <<65,90>>, <<97,122>>, <<170,170>>, <<181,181>>, <<186,186>>, <<192,214>>, <<216,246>>,
     <<248,442>>, <<444,447>>, <<452,659>>, <<661,687>>, <<880,883>>, <<886,887>>, <<891,893>>,
     <<895,895>>, <<902,902>>, <<904,906>>, <<908,908>>, <<910,929>>, <<931,1013>>, <<1015,1153>>,
     <<1162,1327>>, <<1329,1366>>, <<1376,1416>>, <<4256,4293>>, <<4295,4295>>, <<4301,4301>>, <<4304,4346>>,
     <<4349,4351>>, <<5024,5109>>, <<5112,5117>>, <<7296,7304>>, <<7312,7354>>, <<7357,7359>>, <<7424,7467>>,
     <<7531,7543>>, <<7545,7578>>, <<7680,7957>>, <<7960,7965>>, <<7968,8005>>, <<8008,8013>>, <<8016,8023>>,
     <<8025,8025>>, <<8027,8027>>, <<8029,8029>>, <<8031,8061>>, <<8064,8116>>, <<8118,8124>>, <<8126,8126>>,
     <<8130,8132>>, <<8134,8140>>, <<8144,8147>>, <<8150,8155>>, <<8160,8172>>, <<8178,8180>>, <<8182,8188>>,
     <<8450,8450>>, <<8455,8455>>, <<8458,8467>>, <<8469,8469>>, <<8473,8477>>, <<8484,8484>>, <<8486,8486>>,
     <<8488,8488>>, <<8490,8493>>, <<8495,8500>>, <<8505,8505>>, <<8508,8511>>, <<8517,8521>>, <<8526,8526>>,
     <<8544,8575>>, <<8579,8580>>, <<9398,9449>>, <<11264,11387>>, <<11390,11492>>, <<11499,11502>>, <<11506,11507>>,
     <<11520,11557>>, <<11559,11559>>, <<11565,11565>>, <<42560,42605>>, <<42624,42651>>, <<42786,42863>>, <<42865,42887>>,
     <<42891,42894>>, <<42896,42954>>, <<42960,42961>>, <<42963,42963>>, <<42965,42969>>, <<42997,42998>>, <<43002,43002>>,
     <<43824,43866>>, <<43872,43880>>, <<43888,43967>>, <<64256,64262>>, <<64275,64279>>, <<65313,65338>>, <<65345,65370>>,
     <<66560,66639>>, <<66736,66771>>, <<66776,66811>>, <<66928,66938>>, <<66940,66954>>, <<66956,66962>>, <<66964,66965>>,
     <<66967,66977>>, <<66979,66993>>, <<66995,67001>>, <<67003,67004>>, <<68736,68786>>, <<68800,68850>>, <<71840,71903>>,
     <<93760,93823>>, <<119808,119892>>, <<119894,119964>>, <<119966,119967>>, <<119970,119970>>, <<119973,119974>>, <<119977,119980>>,
     <<119982,119993>>, <<119995,119995>>, <<119997,120003>>, <<120005,120069>>, <<120071,120074>>, <<120077,120084>>, <<120086,120092>>,
     <<120094,120121>>, <<120123,120126>>, <<120128,120132>>, <<120134,120134>>, <<120138,120144>>, <<120146,120485>>, <<120488,120512>>,
     <<120514,120538>>, <<120540,120570>>, <<120572,120596>>, <<120598,120628>>, <<120630,120654>>, <<120656,120686>>, <<120688,120712>>,
     <<120714,120744>>, <<120746,120770>>, <<120772,120779>>, <<122624,122633>>, <<122635,122654>>, <<125184,125251>>, <<127280,127305>>,
     <<127312,127337>>, <<127344,127369>> >>

\* Ranges of the case-ignorable code points.
CASE_IGNORABLE_RANGES ==
  <<
     <<39,39>>, <<46,46>>, <<58,58>>, <<94,94>>, <<96,96>>, <<168,168>>, <<173,173>>,
     <<175,175>>, <<180,180>>, <<183,184>>, <<688,879>>, <<884,885>>, <<890,890>>, <<900,901>>,
     <<903,903>>, <<1155,1161>>, <<1369,1369>>, <<1375,1375>>, <<1425,1469>>, <<1471,1471>>, <<1473,1474>>,
     <<1476,1477>>, <<1479,1479>>, <<1524,1524>>, <<1536,1541>>, <<1552,1562>>, <<1564,1564>>, <<1600,1600>>,
     <<1611,1631>>, <<1648,1648>>, <<1750,1757>>, <<1759,1768>>, <<1770,1773>>, <<1807,1807>>, <<1809,1809>>,
     <<1840,1866>>, <<1958,1968>>, <<2027,2037>>, <<2042,2042>>, <<2045,2045>>, <<2070,2093>>, <<2137,2139>>,
     <<2184,2184>>, <<2192,2193>>, <<2200,2207>>, <<2249,2306>>, <<2362,2362>>, <<2364,2364>>, <<2369,2376>>,
     <<2381,2381>>, <<2385,2391>>, <<2402,2403>>, <<2417,2417>>, <<2433,2433>>, <<2492,2492>>, <<2497,2500>>,
     <<2509,2509>>, <<2530,2531>>, <<2558,2558>>, <<2561,2562>>, <<2620,2620>>, <<2625,2626>>, <<2631,2632>>,
     <<2635,2637>>, <<2641,2641>>, <<2672,2673>>, <<2677,2677>>, <<2689,2690>>, <<2748,2748>>, <<2753,2757>>,
     <<2759,2760>>, <<2765,2765>>, <<2786,2787>>, <<2810,2815>>, <<2817,2817>>, <<2876,2876>>, <<2879,2879>>,
     <<2881,2884>>, <<2893,2893>>, <<2901,2902>>, <<2914,2915>>, <<2946,2946>>, <<3008,3008>>, <<3021,3021>>,
     <<3072,3072>>, <<3076,3076>>, <<3132,3132>>, <<3134,3136>>, <<3142,3144>>, <<3146,3149>>, <<3157,3158>>,
     <<3170,3171>>, <<3201,3201>>, <<3260,3260>>, <<3263,3263>>, <<3270,3270>>, <<3276,3277>>, <<3298,3299>>,
     <<3328,3329>>, <<3387,3388>>, <<3393,3396>>, <<3405,3405>>, <<3426,3427>>, <<3457,3457>>, <<3530,3530>>,
     <<3538,3540>>, <<3542,3542>>, <<3633,3633>>, <<3636,3642>>, <<3654,3662>>, <<3761,3761>>, <<3764,3772>>,
     <<3782,3782>>, <<3784,3789>>, <<3864,3865>>, <<3893,3893>>, <<3895,3895>>, <<3897,3897>>, <<3953,3966>>,
     <<3968,3972>>, <<3974,3975>>, <<3981,3991>>, <<3993,4028>>, <<4038,4038>>, <<4141,4144>>, <<4146,4151>>,
     <<4153,4154>>, <<4157,4158>>, <<4184,4185>>, <<4190,4192>>, <<4209,4212>>, <<4226,4226>>, <<4229,4230>>,
     <<4237,4237>>, <<4253,4253>>, <<4348,4348>>, <<4957,4959>>, <<5906,5908>>, <<5938,5939>>, <<5970,5971>>,
     <<6002,6003>>, <<6068,6069>>, <<6071,6077>>, <<6086,6086>>, <<6089,6099>>, <<6103,6103>>, <<6109,6109>>,
     <<6155,6159>>, <<6211,6211>>, <<6277,6278>>, <<6313,6313>>, <<6432,6434>>, <<6439,6440>>, <<6450,6450>>,
     <<6457,6459>>, <<6679,6680>>, <<6683,6683>>, <<6742,6742>>, <<6744,6750>>, <<6752,6752>>, <<6754,6754>>,
     <<6757,6764>>, <<6771,6780>>, <<6783,6783>>, <<6823,6823>>, <<6832,6862>>, <<6912,6915>>, <<6964,6964>>,
     <<6966,6970>>, <<6972,6972>>, <<6978,6978>>, <<7019,7027>>, <<7040,7041>>, <<7074,7077>>, <<7080,7081>>,
     <<7083,7085>>, <<7142,7142>>, <<7144,7145>>, <<7149,7149>>, <<7151,7153>>, <<7212,7219>>, <<7222,7223>>,
     <<7288,7293>>, <<7376,7378>>, <<7380,7392>>, <<7394,7400>>, <<7405,7405>>, <<7412,7412>>, <<7416,7417>>,
     <<7468,7530>>, <<7544,7544>>, <<7579,7679>>, <<8125,8125>>, <<8127,8129>>, <<8141,8143>>, <<8157,8159>>,
     <<8173,8175>>, <<8189,8190>>, <<8203,8207>>, <<8216,8217>>, <<8228,8228>>, <<8231,8231>>, <<8234,8238>>,
     <<8288,8292>>, <<8294,8303>>, <<8305,8305>>, <<8319,8319>>, <<8336,8348>>, <<8400,8432>>, <<11388,11389>>,
     <<11503,11505>>, <<11631,11631>>, <<11647,11647>>, <<11744,11775>>, <<11823,11823>>, <<12293,12293>>, <<12330,12333>>,
     <<12337,12341>>, <<12347,12347>>, <<12441,12446>>, <<12540,12542>>, <<40981,40981>>, <<42232,42237>>, <<42508,42508>>,
     <<42607,42610>>, <<42612,42621>>, <<42623,42623>>, <<42652,42655>>, <<42736,42737>>, <<42752,42785>>, <<42864,42864>>,
     <<42888,42890>>, <<42994,42996>>, <<43000,43001>>, <<43010,43010>>, <<43014,43014>>, <<43019,43019>>, <<43045,43046>>,
     <<43052,43052>>, <<43204,43205>>, <<43232,43249>>, <<43263,43263>>, <<43302,43309>>, <<43335,43345>>, <<43392,43394>>,
     <<43443,43443>>, <<43446,43449>>, <<43452,43453>>, <<43471,43471>>, <<43493,43494>>, <<43561,43566>>, <<43569,43570>>,
     <<43573,43574>>, <<43587,43587>>, <<43596,43596>>, <<43632,43632>>, <<43644,43644>>, <<43696,43696>>, <<43698,43700>>,
     <<43703,43704>>, <<43710,43711>>, <<43713,43713>>, <<43741,43741>>, <<43756,43757>>, <<43763,43764>>, <<43766,43766>>,
     <<43867,43871>>, <<43881,43883>>, <<44005,44005>>, <<44008,44008>>, <<44013,44013>>, <<64286,64286>>, <<64434,64450>>,
     <<65024,65039>>, <<65043,65043>>, <<65056,65071>>, <<65106,65106>>, <<65109,65109>>, <<65279,65279>>, <<65287,65287>>,
     <<65294,65294>>, <<65306,65306>>, <<65342,65342>>, <<65344,65344>>, <<65392,65392>>, <<65438,65439>>, <<65507,65507>>,
     <<65529,65531>>, <<66045,66045>>, <<66272,66272>>, <<66422,66426>>, <<67456,67461>>, <<67463,67504>>, <<67506,67514>>,
     <<68097,68099>>, <<68101,68102>>, <<68108,68111>>, <<68152,68154>>, <<68159,68159>>, <<68325,68326>>, <<68900,68903>>,
     <<69291,69292>>, <<69446,69456>>, <<69506,69509>>, <<69633,69633>>, <<69688,69702>>, <<69744,69744>>, <<69747,69748>>,
     <<69759,69761>>, <<69811,69814>>, <<69817,69818>>, <<69821,69821>>, <<69826,69826>>, <<69837,69837>>, <<69888,69890>>,
     <<69927,69931>>, <<69933,69940>>, <<70003,70003>>, <<70016,70017>>, <<70070,70078>>, <<70089,70092>>, <<70095,70095>>,
     <<70191,70193>>, <<70196,70196>>, <<70198,70199>>, <<70206,70206>>, <<70367,70367>>, <<70371,70378>>, <<70400,70401>>,
     <<70459,70460>>, <<70464,70464>>, <<70502,70508>>, <<70512,70516>>, <<70712,70719>>, <<70722,70724>>, <<70726,70726>>,
     <<70750,70750>>, <<70835,70840>>, <<70842,70842>>, <<70847,70848>>, <<70850,70851>>, <<71090,71093>>, <<71100,71101>>,
     <<71103,71104>>, <<71132,71133>>, <<71219,71226>>, <<71229,71229>>, <<71231,71232>>, <<71339,71339>>, <<71341,71341>>,
     <<71344,71349>>, <<71351,71351>>, <<71453,71455>>, <<71458,71461>>, <<71463,71467>>, <<71727,71735>>, <<71737,71738>>,
     <<71995,71996>>, <<71998,71998>>, <<72003,72003>>, <<72148,72151>>, <<72154,72155>>, <<72160,72160>>, <<72193,72202>>,
     <<72243,72248>>, <<72251,72254>>, <<72263,72263>>, <<72273,72278>>, <<72281,72283>>, <<72330,72342>>, <<72344,72345>>,
     <<72752,72758>>, <<72760,72765>>, <<72767,72767>>, <<72850,72871>>, <<72874,72880>>, <<72882,72883>>, <<72885,72886>>,
     <<73009,73014>>, <<73018,73018>>, <<73020,73021>>, <<73023,73029>>, <<73031,73031>>, <<73104,73105>>, <<73109,73109>>,
     <<73111,73111>>, <<73459,73460>>, <<78896,78904>>, <<92912,92916>>, <<92976,92982>>, <<92992,92995>>, <<94031,94031>>,
     <<94095,94111>>, <<94176,94177>>, <<94179,94180>>, <<110576,110579>>, <<110581,110587>>, <<110589,110590>>, <<113821,113822>>,
     <<113824,113827>>, <<118528,118573>>, <<118576,118598>>, <<119143,119145>>, <<119155,119170>>, <<119173,119179>>, <<119210,119213>>,
     <<119362,119364>>, <<121344,121398>>, <<121403,121452>>, <<121461,121461>>, <<121476,121476>>, <<121499,121503>>, <<121505,121519>>,
     <<122880,122886>>, <<122888,122904>>, <<122907,122913>>, <<122915,122916>>, <<122918,122922>>, <<123184,123197>>, <<123566,123566>>,
     <<123628,123631>>, <<125136,125142>>, <<125252,125259>>, <<127995,127999>>, <<917505,917505>>, <<917536,917631>>, <<917760,917999>> >>

\* The one character whose lowercase is two characters.
LOWER_SPECIAL == { << "\\u0130", << "i", "\\u0307" >> >> }

\* A character that has another lowercase, paired with it.
LowerPairs ==
  UNION { { << chr(cp), << chr(cp + LOWER_RULES[r][4]) >> >> :
              cp \in { x \in LOWER_RULES[r][1]..LOWER_RULES[r][2] :
                         (x - LOWER_RULES[r][1]) % LOWER_RULES[r][3] = 0 } } :
          r \in DOMAIN LOWER_RULES }
  \cup LOWER_SPECIAL

Uppers == { p[1] : p \in LowerPairs }

\* The characters that have a case and are not case-ignorable.
Cased ==
  { chr(cp) : cp \in UNION { CASED_RANGES[r][1]..CASED_RANGES[r][2] :
                               r \in DOMAIN CASED_RANGES } }

CaseIgnorable ==
  { chr(cp) : cp \in UNION { CASE_IGNORABLE_RANGES[r][1]..CASE_IGNORABLE_RANGES[r][2] :
                               r \in DOMAIN CASE_IGNORABLE_RANGES } }

SIGMA == "\\u03a3"

\* The nearest position before j (j included) whose character is not
\* case-ignorable; 0 if there is none.
RECURSIVE cased_before(_, _)
cased_before(s, j) ==
  IF j = 0 THEN 0
  ELSE IF s[j] \in CaseIgnorable THEN cased_before(s, j - 1) ELSE j

\* The nearest position from j on whose character is not case-ignorable;
\* Len(s) + 1 if there is none.
RECURSIVE cased_after(_, _)
cased_after(s, j) ==
  IF j > Len(s) THEN j
  ELSE IF s[j] \in CaseIgnorable THEN cased_after(s, j + 1) ELSE j

\* A capital sigma at position i ends a word: a cased character comes before
\* it and none comes after it, case-ignorable characters not counted.
final_sigma(s, i) ==
  LET j == cased_before(s, i - 1)
      k == cased_after(s, i + 1)
  IN /\ j >= 1
     /\ s[j] \in Cased
     /\ (k > Len(s) \/ s[k] \notin Cased)

\* The lowercase of the character at position i of s.
lower_char(s, i) ==
  LET c == s[i] IN
  IF \E k \in 1..26 : UPPER[k] = c
  THEN << LOWER[CHOOSE k \in 1..26 : UPPER[k] = c] >>
  ELSE IF c = SIGMA
       THEN (IF final_sigma(s, i) THEN << "\\u03c2" >> ELSE << "\\u03c3" >>)
  ELSE IF c \in Uppers THEN (CHOOSE p \in LowerPairs : p[1] = c)[2]
  ELSE << c >>

RECURSIVE lower_from(_, _)
lower_from(s, i) ==
  IF i > Len(s) THEN << >> ELSE lower_char(s, i) \o lower_from(s, i + 1)

\* s.lower().
lower(s) == lower_from(s, 1)

(***************************************************************************)
(* os.path.join and os.path.abspath on POSIX (lines 82, 85, 86).           *)
(***************************************************************************)
SLASH == << "/" >>

DOT == << "." >>

DOTDOT == << ".", "." >>

\* The working directory of the server process.
CWD == << "/", "w" >>

\* os.path.join(a, b)
path_join(a, b) ==
  IF startswith(b, SLASH) THEN b
  ELSE IF a = << >> \/ endswith(a, SLASH) THEN a \o b
  ELSE a \o SLASH \o b

\* The loop of posixpath.normpath over the components.
RECURSIVE norm_comps(_, _, _)
norm_comps(comps, new_comps, initial_slashes) ==
  IF comps = << >> THEN new_comps
  ELSE LET comp == Head(comps) IN
       IF comp = << >> \/ comp = DOT
       THEN norm_comps(Tail(comps), new_comps, initial_slashes)
       ELSE IF comp # DOTDOT
               \/ (initial_slashes = 0 /\ new_comps = << >>)
               \/ (new_comps # << >> /\ new_comps[Len(new_comps)] = DOTDOT)
            THEN norm_comps(Tail(comps), Append(new_comps, comp), initial_slashes)
            ELSE IF new_comps # << >>
                 THEN norm_comps(Tail(comps), SubSeq(new_comps, 1, Len(new_comps) - 1),
                                 initial_slashes)
                 ELSE norm_comps(Tail(comps), new_comps, initial_slashes)

\* posixpath.normpath(path)
normpath(path) ==
  IF path = << >> THEN DOT
  ELSE LET initial_slashes ==
             IF ~ startswith(path, SLASH) THEN 0
             ELSE IF startswith(path, << "/", "/" >>) /\ ~ startswith(path, << "/", "/", "/" >>)
                  THEN 2 ELSE 1
           joined == join(SLASH, norm_comps(split(path, SLASH), << >>, initial_slashes))
           result == [ i \in 1..initial_slashes |-> "/" ] \o joined
       IN IF result = << >> THEN DOT ELSE result

\* os.path.abspath(path)
abspath(path) ==
  IF startswith(path, SLASH) THEN normpath(path) ELSE normpath(path_join(CWD, path))

(***************************************************************************)
(* The file system the server runs on: canonical absolute path -> node.    *)
(* There are no symbolic links.                                            *)
(***************************************************************************)
Dir == [ kind |-> "dir", readable |-> TRUE, data |-> << >> ]

File(bytes) == [ kind |-> "file", readable |-> TRUE, data |-> bytes ]

Unreadable(bytes) == [ kind |-> "file", readable |-> FALSE, data |-> bytes ]

INDEX_HTML == <<"i","n","d","e","x",".","h","t","m","l">>

FileSystem ==
     ( SLASH :> Dir )
  @@ ( <<"/","w">> :> Dir )
  @@ ( (<<"/","w","/">> \o INDEX_HTML) :> File(<<"<","p",">","h","i","<","/","p",">">>) )
  @@ ( <<"/","w","/","a",".","c","s","s">> :> File(<<"p","{","}","\r","\n","\r","\n">>) )
  @@ ( <<"/","w","/","n",".","t","x","t">> :> Unreadable(<<"n","o">>) )
  @@ ( <<"/","w","/","d">> :> Dir )
  @@ ( (<<"/","w","/","d","/">> \o INDEX_HTML) :> File(<< >>) )
  @@ ( <<"/","w","2">> :> Dir )
  @@ ( <<"/","w","2","/","s",".","t","x","t">> :> File(<<"s","e","c","r","e","t">>) )
  @@ ( <<"/","e">> :> Dir )
  @@ ( <<"/","e","/","p">> :> File(<<"r","o","o","t",":","x">>) )

\* The parent directory of a canonical path (the root is its own parent).
parent(p) ==
  LET comps == split(p, SLASH) IN
  IF Len(comps) <= 2 THEN SLASH
  ELSE join(SLASH, SubSeq(comps, 1, Len(comps) - 1))

\* The longest file name and the longest path, terminator included, that the
\* kernel takes, in bytes.
NAME_MAX == 255

PATH_MAX == 4096

\* The characters whose UTF-8 encoding has two bytes.
TwoByteChars == { chr(cp) : cp \in 128..2047 }

\* The bytes of a character in the file system encoding (UTF-8): past the
\* two-byte characters, three for a character written \uhhhh and four for one
\* written \Uhhhhhhhh.
fs_bytes(c) ==
  IF c \in TwoByteChars THEN 2
  ELSE IF Len(c) = 6 THEN 3
  ELSE IF Len(c) = 10 THEN 4
  ELSE 1

\* len(os.fsencode(s)): a byte for every character, and one more for every
\* character of two bytes or more, of three or more, and of four.
fs_len(s) ==
  Len(s) + Cardinality({ i \in 1..Len(s) : fs_bytes(s[i]) >= 2 })
         + Cardinality({ i \in 1..Len(s) : fs_bytes(s[i]) >= 3 })
         + Cardinality({ i \in 1..Len(s) : fs_bytes(s[i]) >= 4 })

\* The kernel's path walk from directory cur over the components of a path:
\* every component is looked up in a directory, ".." goes to the parent; a
\* name longer than NAME_MAX is refused (ENAMETOOLONG) when it is looked up.
RECURSIVE walk(_, _)
walk(cur, comps) ==
  IF comps = << >> THEN [ exc |-> "None", real |-> cur ]
  ELSE IF FileSystem[cur].kind # "dir" THEN [ exc |-> "NotADirectoryError", real |-> cur ]
  ELSE LET comp == Head(comps) IN
       IF comp = << >> \/ comp = DOT THEN walk(cur, Tail(comps))
       ELSE IF comp = DOTDOT THEN walk(parent(cur), Tail(comps))
       ELSE IF fs_len(comp) > NAME_MAX THEN [ exc |-> "OSError", real |-> cur ]
       ELSE LET child == IF cur = SLASH THEN cur \o comp ELSE cur \o SLASH \o comp IN
            IF child \notin DOMAIN FileSystem
            THEN [ exc |-> "FileNotFoundError", real |-> child ]
            ELSE walk(child, Tail(comps))

\* open(path, 'rb') followed by f.read(): the exception raised ("None" when the
\* read succeeds), the canonical path of the file that was read, and its bytes.
open_rb(path) ==
  IF path = << >>
  THEN [ exc |-> "FileNotFoundError", real |-> << >>, data |-> << >> ]
  ELSE IF \E i \in 1..Len(path) : path[i] = "\\x00"
  THEN [ exc |-> "ValueError", real |-> << >>, data |-> << >> ]
  ELSE IF fs_len(path) >= PATH_MAX
  THEN [ exc |-> "OSError", real |-> << >>, data |-> << >> ]
  ELSE LET w == walk(IF startswith(path, SLASH) THEN SLASH ELSE CWD, split(path, SLASH)) IN
       IF w.exc # "None" THEN [ exc |-> w.exc, real |-> << >>, data |-> << >> ]
       ELSE IF FileSystem[w.real].kind = "dir"
            THEN [ exc |-> "IsADirectoryError", real |-> << >>, data |-> << >> ]
       ELSE IF ~ FileSystem[w.real].readable
            THEN [ exc |-> "PermissionError", real |-> << >>, data |-> << >> ]
       ELSE [ exc |-> "None", real |-> w.real, data |-> FileSystem[w.real].data ]

(***************************************************************************)
(* State.                                                                  *)
(***************************************************************************)
VARIABLES
  now,            \* the wall clock formatdate reads, in seconds since the epoch
  doc_root,       \* the document root given on the command line
  server,         \* the accept loop of start_server: "accepting", or "closed"
                  \* once the interrupt has ended it (lines 196-200)
  pc,             \* per connection: where its handler thread is
  peer,           \* per connection: the bytes its client sends in all (stream),
                  \* the segments of them not yet received (chunks),
                  \* whether the client closes its sending side after them
                  \* (eof), and whether it closes the connection without
                  \* reading all of the response (hangs_up)
  request_data,   \* per connection: handle_request's buffer
  read_end,       \* per connection: how the read loop ended: "" (it has not),
                  \* "terminator" (line 122), "eof" (line 119), "error" (line 124)
  uri_path,       \* per connection: the URI token of the request line
  response_bytes, \* per connection: what build_response returned
  opened,         \* per connection: canonical path of the file build_response read
  sent,           \* per connection: the bytes written to the client socket
  closes,         \* per connection: calls of client_socket.close()
  exc,            \* per connection: the exception that ended the thread
  events,         \* per connection: what its handler has done so far, in order:
                  \* "recv" (bytes received), "recv_eof", "recv_error",
                  \* "parse", "build", "send", "send_error", "close"
  accept_errors,  \* exceptions the accept loop has caught and logged (line 202)
  mime_path,      \* the argument of a call of get_mime_type
  mime_type       \* what that call returned

vars == << now, doc_root, server, pc, peer, request_data, read_end, uri_path,
           response_bytes, opened, sent, closes, exc, events, accept_errors,
           mime_path, mime_type >>

Conns == 1..NumConns

(***************************************************************************)
(* get_mime_type (lines 28-33).                                            *)
(***************************************************************************)
\* A variant of get_mime_type that looks the extension up as it is written.
get_mime_type_case_sensitive(file_path) ==
  IF contains(file_path, DOT)
  THEN LET parts == split(file_path, DOT)
           ext == parts[Len(parts)]
       IN IF \E m \in MIME_TYPES : m[1] = ext
          THEN (CHOOSE m \in MIME_TYPES : m[1] = ext)[2]
          ELSE DEFAULT_MIME_TYPE
  ELSE DEFAULT_MIME_TYPE

get_mime_type(file_path) ==
  IF contains(file_path, DOT)
  THEN LET parts == split(file_path, DOT)
           ext == lower(parts[Len(parts)])
       IN IF \E m \in MIME_TYPES : m[1] = ext
          THEN (CHOOSE m \in MIME_TYPES : m[1] = ext)[2]
          ELSE DEFAULT_MIME_TYPE
  ELSE DEFAULT_MIME_TYPE

(***************************************************************************)
(* format_http_response (lines 36-58).                                     *)
(***************************************************************************)
\* email.utils.formatdate(timeval=None, localtime=False, usegmt=True) at clock
\* value t, for a t within the first day of the epoch.
formatdate(t) ==
  <<"T","h","u",","," ","0","1"," ","J","a","n"," ","1","9","7","0"," ">>
  \o two_digits((t \div 3600) % 24) \o << ":" >>
  \o two_digits((t \div 60) % 60) \o << ":" >>
  \o two_digits(t % 60)
  \o <<" ","G","M","T">>

\* A variant of format_http_response whose Content-Length also counts the
\* CRLF CRLF that ends the header block.
format_http_response_counting_blank(status_code, status_text, content_type, content_body) ==
  <<"H","T","T","P","/","1",".","1"," ">> \o str(status_code) \o << " " >> \o status_text \o CRLF
  \o <<"D","a","t","e",":"," ">> \o formatdate(now) \o CRLF
  \o <<"S","e","r","v","e","r",":"," ">> \o SERVER_NAME \o CRLF
  \o <<"C","o","n","t","e","n","t","-","T","y","p","e",":"," ">> \o content_type \o CRLF
  \o <<"C","o","n","t","e","n","t","-","L","e","n","g","t","h",":"," ">>
  \o str(Len(CRLFCRLF \o content_body)) \o CRLF
  \o <<"C","o","n","n","e","c","t","i","o","n",":"," ","c","l","o","s","e">> \o CRLFCRLF
  \o content_body

\* A variant of format_http_response that also stamps the Server header with
\* the second the response was built in.
format_http_response_stamped(status_code, status_text, content_type, content_body) ==
  <<"H","T","T","P","/","1",".","1"," ">> \o str(status_code) \o << " " >> \o status_text \o CRLF
  \o <<"D","a","t","e",":"," ">> \o formatdate(now) \o CRLF
  \o <<"S","e","r","v","e","r",":"," ">> \o SERVER_NAME \o << " " >> \o two_digits(now % 60) \o CRLF
  \o <<"C","o","n","t","e","n","t","-","T","y","p","e",":"," ">> \o content_type \o CRLF
  \o <<"C","o","n","t","e","n","t","-","L","e","n","g","t","h",":"," ">>
  \o str(Len(content_body)) \o CRLF
  \o <<"C","o","n","n","e","c","t","i","o","n",":"," ","c","l","o","s","e">> \o CRLFCRLF
  \o content_body

format_http_response(status_code, status_text, content_type, content_body) ==
  LET content_length == Len(content_body)
      date_header == formatdate(now)
      response_line == <<"H","T","T","P","/","1",".","1"," ">> \o str(status_code)
                       \o << " " >> \o status_text \o CRLF
      headers == << <<"D","a","t","e",":"," ">> \o date_header,
                    <<"S","e","r","v","e","r",":"," ">> \o SERVER_NAME,
                    <<"C","o","n","t","e","n","t","-","T","y","p","e",":"," ">> \o content_type,
                    <<"C","o","n","t","e","n","t","-","L","e","n","g","t","h",":"," ">>
                      \o str(content_length),
                    <<"C","o","n","n","e","c","t","i","o","n",":"," ","c","l","o","s","e">> >>
      header_string == response_line \o join(CRLF, headers) \o CRLFCRLF
  IN header_string \o content_body

(***************************************************************************)
(* build_response (lines 63-107): the bytes returned, or the exception     *)
(* that leaves the function, and the canonical path of the file it read.   *)
(***************************************************************************)
BAD_REQUEST_HTML == <<"<","h","1",">","4","0","0"," ","B","a","d"," ","R","e","q","u","e","s","t","<","/","h","1",">">>

SECURITY_HTML == <<"<","h","1",">","4","0","4"," ","N","o","t"," ","F","o","u","n","d"," ","(","S","e","c","u","r","i","t","y"," ","V","i","o","l","a","t","i","o","n",")","<","/","h","1",">">>

NOT_FOUND_HTML == <<"<","h","1",">","4","0","4"," ","N","o","t"," ","F","o","u","n","d","<","/","h","1",">">>

NOT_FOUND == <<"N","o","t"," ","F","o","u","n","d">>

BAD_REQUEST == <<"B","a","d"," ","R","e","q","u","e","s","t">>

\* Lines 70-74: the try around unquote.  unquote raises nothing on a str, so
\* exc is always "None" and the except branch is never taken.
try_unquote(uri) == [ exc |-> "None", value |-> unquote(uri) ]

\* Lines 81-82 without lines 77-78: the join with no default document.
full_path_of_no_index(decoded, root) == path_join(root, lstrip(decoded, "/"))

\* Lines 76-82: index handling, then the join with the document root.
full_path_of(decoded, root) ==
  LET indexed == IF endswith(decoded, SLASH) THEN decoded \o INDEX_HTML ELSE decoded
      relative_path == lstrip(indexed, "/")
  IN path_join(root, relative_path)

\* Line 89: the containment test on the two absolute paths.
inside_root(abs_full_path, abs_doc_root) == startswith(abs_full_path, abs_doc_root)

build_response(uri, root) ==
  LET u == try_unquote(uri) IN
  IF u.exc # "None"
  THEN [ exc |-> "None", opened |-> << >>,
         bytes |-> format_http_response(400, BAD_REQUEST, TEXT_HTML, BAD_REQUEST_HTML) ]
  ELSE
  LET full_path == full_path_of(u.value, root)
      abs_doc_root == abspath(root)
      abs_full_path == abspath(full_path)
  IN IF ~ inside_root(abs_full_path, abs_doc_root)
     THEN [ exc |-> "None", opened |-> << >>,
            bytes |-> format_http_response(404, NOT_FOUND, TEXT_HTML, SECURITY_HTML) ]
     ELSE LET f == open_rb(full_path) IN
          IF f.exc = "None"
          THEN [ exc |-> "None", opened |-> f.real,
                 bytes |-> format_http_response(200, << "O", "K" >>,
                                                get_mime_type(full_path), f.data) ]
          ELSE IF f.exc = "FileNotFoundError"
          THEN [ exc |-> "None", opened |-> << >>,
                 bytes |-> format_http_response(404, NOT_FOUND, TEXT_HTML, NOT_FOUND_HTML) ]
          ELSE [ exc |-> f.exc, opened |-> << >>, bytes |-> << >> ]

(***************************************************************************)
(* handle_request (lines 110-157), one action per step of the thread.      *)
(* pc: "none" (not accepted), "recv" (the read loop, lines 116-122),       *)
(* "parse" (lines 130-147), "build" (line 150), "send" (lines 152-155),    *)
(* "close" (line 157), "done" (returned), "died" (an exception left the    *)
(* function and ended the thread).                                         *)
(***************************************************************************)
\* The size argument of recv (line 117).
RECV_SIZE == 1024

NoPeer == [ stream |-> << >>, chunks |-> << >>, eof |-> FALSE, hangs_up |-> FALSE ]

\* A variant of parse_request_line that takes a buffer without the header
\* terminator for a malformed request.
parse_request_line_terminated(data) ==
  LET tokens == split_ws(split(data, CRLF)[1], << >>) IN
  IF Len(tokens) = 3 /\ contains(data, CRLFCRLF)
  THEN [ exc |-> "None", method |-> tokens[1], uri |-> tokens[2],
         http_version |-> tokens[3] ]
  ELSE [ exc |-> "ValueError", method |-> << >>, uri |-> << >>,
         http_version |-> << >> ]

\* A variant of parse_request_line that takes only HTTP/1.1 for the version.
parse_request_line_versioned(data) ==
  LET tokens == split_ws(split(data, CRLF)[1], << >>) IN
  IF Len(tokens) = 3 /\ tokens[3] = << "H", "T", "T", "P", "/", "1", ".", "1" >>
  THEN [ exc |-> "None", method |-> tokens[1], uri |-> tokens[2],
         http_version |-> tokens[3] ]
  ELSE [ exc |-> "ValueError", method |-> << >>, uri |-> << >>,
         http_version |-> << >> ]

\* Lines 136-138: the first line of the buffer, split on whitespace into
\* exactly three names.  bytes.decode('latin-1') maps byte n to character n:
\* bytes and characters are the same one-character strings here.
parse_request_line(data) ==
  LET request_lines == split(data, CRLF)
      request_line == request_lines[1]
      tokens == split_ws(request_line, << >>)
  IN IF Len(tokens) = 3
     THEN [ exc |-> "None", method |-> tokens[1], uri |-> tokens[2],
            http_version |-> tokens[3] ]
     ELSE [ exc |-> "ValueError", method |-> << >>, uri |-> << >>,
            http_version |-> << >> ]

\* A variant of is_get that compares the method without regard to case.
is_get_anycase(method) == lower(method) = << "g", "e", "t" >>

\* Line 145: the methods that are served.
is_get(method) == method = << "G", "E", "T" >>

\* Line 121: the test that ends the read loop.
headers_complete(data) == contains(data, CRLFCRLF)

\* A variant of Recv whose buffer is one module-level value that every
\* handler thread appends to.
Recv_shared_buffer(c) ==
  /\ pc[c] = "recv"
  /\ peer[c].chunks # << >>
  /\ LET chunk == Head(peer[c].chunks)
         data == request_data[c] \o chunk
     IN /\ request_data' = [d \in Conns |-> request_data[d] \o chunk]
        /\ peer' = [peer EXCEPT ![c].chunks = Tail(peer[c].chunks)]
        /\ pc' = [pc EXCEPT ![c] = IF headers_complete(data) THEN "parse" ELSE "recv"]
        /\ read_end' = [read_end EXCEPT ![c] = IF headers_complete(data) THEN "terminator" ELSE ""]
  /\ events' = [events EXCEPT ![c] = @ \o << "recv" >>]
  /\ UNCHANGED << accept_errors, mime_path, mime_type,
                  now, doc_root, server, uri_path, response_bytes, opened, sent,
                  closes, exc >>

\* A variant of Recv that looks for the terminator in the bytes just
\* received.
Recv_chunk_terminator(c) ==
  /\ pc[c] = "recv"
  /\ peer[c].chunks # << >>
  /\ LET chunk == Head(peer[c].chunks)
         data == request_data[c] \o chunk
     IN /\ request_data' = [request_data EXCEPT ![c] = data]
        /\ peer' = [peer EXCEPT ![c].chunks = Tail(peer[c].chunks)]
        /\ pc' = [pc EXCEPT ![c] = IF headers_complete(chunk) THEN "parse" ELSE "recv"]
        /\ read_end' = [read_end EXCEPT ![c] = IF headers_complete(chunk) THEN "terminator" ELSE ""]
  /\ events' = [events EXCEPT ![c] = @ \o << "recv" >>]
  /\ UNCHANGED << accept_errors, mime_path, mime_type,
                  now, doc_root, server, uri_path, response_bytes, opened, sent,
                  closes, exc >>

\* Lines 117-122: recv returns the next bytes of the client.
Recv(c) ==
  /\ pc[c] = "recv"
  /\ peer[c].chunks # << >>
  /\ LET segment == Head(peer[c].chunks)
         chunk == IF Len(segment) <= RECV_SIZE THEN segment
                  ELSE SubSeq(segment, 1, RECV_SIZE)
         rest == IF Len(segment) <= RECV_SIZE THEN Tail(peer[c].chunks)
                 ELSE << SubSeq(segment, RECV_SIZE + 1, Len(segment)) >>
                      \o Tail(peer[c].chunks)
         data == request_data[c] \o chunk
     IN /\ request_data' = [request_data EXCEPT ![c] = data]
        /\ peer' = [peer EXCEPT ![c].chunks = rest]
        /\ pc' = [pc EXCEPT ![c] = IF headers_complete(data) THEN "parse" ELSE "recv"]
        /\ read_end' = [read_end EXCEPT ![c] = IF headers_complete(data) THEN "terminator" ELSE ""]
  /\ events' = [events EXCEPT ![c] = @ \o << "recv" >>]
  /\ UNCHANGED << accept_errors, mime_path, mime_type,
                  now, doc_root, server, uri_path, response_bytes, opened, sent,
                  closes, exc >>

\* Lines 117-119: recv returns b'' once the client has closed its sending side.
RecvEof(c) ==
  /\ pc[c] = "recv"
  /\ peer[c].chunks = << >>
  /\ peer[c].eof
  /\ pc' = [pc EXCEPT ![c] = "parse"]
  /\ read_end' = [read_end EXCEPT ![c] = "eof"]
  /\ events' = [events EXCEPT ![c] = @ \o << "recv_eof" >>]
  /\ UNCHANGED << accept_errors, mime_path, mime_type,
                  now, doc_root, server, peer, request_data, uri_path,
                  response_bytes, opened, sent, closes, exc >>

\* A variant of RecvError that goes on to the request line with the bytes
\* read before the error.
RecvError_continuing(c) ==
  /\ pc[c] = "recv"
  /\ read_end' = [read_end EXCEPT ![c] = "error"]
  /\ pc' = [pc EXCEPT ![c] = "parse"]
  /\ events' = [events EXCEPT ![c] = @ \o << "recv_error" >>]
  /\ UNCHANGED << accept_errors, mime_path, mime_type,
                  now, doc_root, server, peer, request_data, uri_path,
                  response_bytes, opened, sent, closes, exc >>

\* Lines 124-128: recv raises socket.error; the socket is closed, the thread returns.
RecvError(c) ==
  /\ pc[c] = "recv"
  /\ read_end' = [read_end EXCEPT ![c] = "error"]
  /\ closes' = [closes EXCEPT ![c] = @ + 1]
  /\ pc' = [pc EXCEPT ![c] = "done"]
  /\ events' = [events EXCEPT ![c] = @ \o << "recv_error", "close" >>]
  /\ UNCHANGED << accept_errors, mime_path, mime_type,
                  now, doc_root, server, peer, request_data, uri_path,
                  response_bytes, opened, sent, exc >>

\* Lines 130-147: the empty buffer, the request line and the method.
Parse(c) ==
  /\ pc[c] = "parse"
  /\ LET r == parse_request_line(request_data[c]) IN
     IF request_data[c] = << >> \/ r.exc # "None" \/ ~ is_get(r.method)
     THEN /\ closes' = [closes EXCEPT ![c] = @ + 1]
          /\ pc' = [pc EXCEPT ![c] = "done"]
          /\ events' = [events EXCEPT ![c] =
                          @ \o IF request_data[c] = << >> THEN << "close" >>
                               ELSE << "parse", "close" >>]
          /\ UNCHANGED uri_path
     ELSE /\ uri_path' = [uri_path EXCEPT ![c] = r.uri]
          /\ pc' = [pc EXCEPT ![c] = "build"]
          /\ events' = [events EXCEPT ![c] = @ \o << "parse" >>]
          /\ UNCHANGED closes
  /\ UNCHANGED << accept_errors, mime_path, mime_type,
                  now, doc_root, server, peer, request_data, read_end, response_bytes,
                  opened, sent, exc >>

\* Line 150: build_response; an exception it lets through ends the thread.
Build(c) ==
  /\ pc[c] = "build"
  /\ LET r == build_response(uri_path[c], doc_root) IN
     /\ response_bytes' = [response_bytes EXCEPT ![c] = r.bytes]
     /\ opened' = [opened EXCEPT ![c] = r.opened]
     /\ exc' = [exc EXCEPT ![c] = r.exc]
     /\ pc' = [pc EXCEPT ![c] = IF r.exc = "None" THEN "send" ELSE "died"]
  /\ events' = [events EXCEPT ![c] = @ \o << "build" >>]
  /\ UNCHANGED << accept_errors, mime_path, mime_type,
                  now, doc_root, server, peer, request_data, read_end, uri_path, sent, closes >>

\* Line 153: sendall writes the whole response.
Send(c) ==
  /\ pc[c] = "send"
  /\ sent' = [sent EXCEPT ![c] = response_bytes[c]]
  /\ pc' = [pc EXCEPT ![c] = "close"]
  /\ events' = [events EXCEPT ![c] = @ \o << "send" >>]
  /\ UNCHANGED << accept_errors, mime_path, mime_type,
                  now, doc_root, server, peer, request_data, read_end, uri_path,
                  response_bytes, opened, closes, exc >>

\* How much of a response a failing sendall may have written before it
\* raised: any number of its bytes short of all of them, as the kernel took
\* them.
partial_writes(response) == 0..(Len(response) - 1)

\* sendall has failed on connection c.
SendFailed(c) == \E i \in DOMAIN events[c] : events[c][i] = "send_error"

\* sendall may fail on connection c: it has before, or fewer than
\* MaxSendErrors connections have seen it fail.
MayFail(c) ==
  SendFailed(c) \/ Cardinality({ d \in DOMAIN events : SendFailed(d) }) < MaxSendErrors

\* A variant of SendError that goes back to sendall after the error.
SendError_retrying(c) ==
  /\ pc[c] = "send"
  /\ peer[c].hangs_up
  /\ MayFail(c)
  /\ \E k \in partial_writes(response_bytes[c]) :
       sent' = [sent EXCEPT ![c] = SubSeq(response_bytes[c], 1, k)]
  /\ Len(events[c]) < 8
  /\ pc' = [pc EXCEPT ![c] = "send"]
  /\ events' = [events EXCEPT ![c] = @ \o << "send_error" >>]
  /\ UNCHANGED << accept_errors, mime_path, mime_type,
                  now, doc_root, server, peer, request_data, read_end, uri_path,
                  response_bytes, opened, closes, exc >>

\* Lines 153-155: the client has hung up and sendall raises socket.error
\* after writing part of the response.
SendError(c) ==
  /\ pc[c] = "send"
  /\ peer[c].hangs_up
  /\ MayFail(c)
  /\ \E k \in partial_writes(response_bytes[c]) :
       sent' = [sent EXCEPT ![c] = SubSeq(response_bytes[c], 1, k)]
  /\ pc' = [pc EXCEPT ![c] = "close"]
  /\ events' = [events EXCEPT ![c] = @ \o << "send_error" >>]
  /\ UNCHANGED << accept_errors, mime_path, mime_type,
                  now, doc_root, server, peer, request_data, read_end, uri_path,
                  response_bytes, opened, closes, exc >>

\* Line 157: the socket is closed and the thread returns.
Close(c) ==
  /\ pc[c] = "close"
  /\ closes' = [closes EXCEPT ![c] = @ + 1]
  /\ pc' = [pc EXCEPT ![c] = "done"]
  /\ events' = [events EXCEPT ![c] = @ \o << "close" >>]
  /\ UNCHANGED << accept_errors, mime_path, mime_type,
                  now, doc_root, server, peer, request_data, read_end, uri_path,
                  response_bytes, opened, sent, exc >>

\* A variant of Accept that does not look at the listening socket.
Accept_when_closed(c, p) ==
  /\ pc[c] = "none"
  /\ \A d \in 1..(c - 1) : pc[d] # "none"
  /\ pc' = [pc EXCEPT ![c] = "recv"]
  /\ peer' = [peer EXCEPT ![c] = p]
  /\ UNCHANGED << events, accept_errors, mime_path, mime_type,
                  now, doc_root, server, request_data, read_end, uri_path, response_bytes,
                  opened, sent, closes, exc >>

\* A variant of Accept in which the loop joins the handler thread it started
\* before it accepts again.
Accept_after_join(c, p) ==
  /\ server = "accepting"
  /\ pc[c] = "none"
  /\ \A d \in 1..(c - 1) : pc[d] \in { "done", "died" }
  /\ pc' = [pc EXCEPT ![c] = "recv"]
  /\ peer' = [peer EXCEPT ![c] = p]
  /\ UNCHANGED << events, accept_errors, mime_path, mime_type,
                  now, doc_root, server, request_data, read_end, uri_path, response_bytes,
                  opened, sent, closes, exc >>

\* Lines 185-194: accept returns the next connection, whose client will send
\* p; a daemon thread is started on handle_request.
Accept(c, p) ==
  /\ server = "accepting"
  /\ pc[c] = "none"
  /\ \A d \in 1..(c - 1) : pc[d] # "none"
  /\ pc' = [pc EXCEPT ![c] = "recv"]
  /\ peer' = [peer EXCEPT ![c] = p]
  /\ UNCHANGED << events, accept_errors, mime_path, mime_type,
                  now, doc_root, server, request_data, read_end, uri_path, response_bytes,
                  opened, sent, closes, exc >>

\* A variant of AcceptError in which the exception ends the accept loop.
AcceptError_terminating ==
  /\ server = "accepting"
  /\ accept_errors < MaxAcceptErrors
  /\ accept_errors' = accept_errors + 1
  /\ server' = "closed"
  /\ UNCHANGED << now, doc_root, pc, peer, request_data, read_end, uri_path,
                  response_bytes, opened, sent, closes, exc, events,
                  mime_path, mime_type >>

\* Lines 201-202: an exception other than the interrupt is raised inside the
\* try of the loop (accept fails); it is printed and the loop goes round.
AcceptError ==
  /\ server = "accepting"
  /\ accept_errors < MaxAcceptErrors
  /\ accept_errors' = accept_errors + 1
  /\ UNCHANGED << now, doc_root, server, pc, peer, request_data, read_end, uri_path,
                  response_bytes, opened, sent, closes, exc, events,
                  mime_path, mime_type >>

\* Lines 196-200: KeyboardInterrupt arrives while the loop is in its try;
\* the listening socket is closed and the loop is left.  The handler threads
\* are not joined and not told anything.
Interrupt ==
  /\ server = "accepting"
  /\ server' = "closed"
  /\ UNCHANGED << now, doc_root, pc, peer, request_data, read_end, uri_path,
                  response_bytes, opened, sent, closes, exc, events, accept_errors,
                  mime_path, mime_type >>

\* Time passes.
Tick ==
  /\ now < MaxClock
  /\ now' = now + 1
  /\ UNCHANGED << events, accept_errors, mime_path, mime_type,
                  doc_root, server, pc, peer, request_data, read_end, uri_path,
                  response_bytes, opened, sent, closes, exc >>

(***************************************************************************)
(* The inputs the specifications draw from.                                *)
(***************************************************************************)
\* Document roots: absolute, the working directory, and a relative
\* subdirectory written with a trailing slash.  Each is a directory, as
\* start_server requires (line 163).
DocRoots == { <<"/","w">>, <<".">>, <<"d","/">> }

\* A file name one byte longer than the kernel takes.
LONG_NAME == [ i \in 1..(NAME_MAX + 1) |-> "x" ]

\* Segments of the URI paths SpecResolve enumerates.
Segments ==
  { <<".",".">>, <<"%","2","e","%","2","e">>, <<"w","2">>, <<"s",".","t","x","t">>,
    <<"d">>, << >>, <<"a",".","c","s","s">>, <<"n",".","t","x","t">>,
    <<"%","z","z">>, <<"%","0","0">>, <<"%","C","3","%","A","9">> }

\* "/" followed by one to MaxSegs segments joined by "/"; and paths with a
\* name of NAME_MAX bytes or one more: in the root, in a directory, and after
\* a name that is missing.
UriPaths ==
  { SLASH \o join(SLASH, segs) : segs \in UNION { [1..n -> Segments] : n \in 1..MaxSegs } }
  \cup { SLASH \o LONG_NAME, <<"/","d","/">> \o LONG_NAME, <<"/","x","/">> \o LONG_NAME,
         SLASH \o SubSeq(LONG_NAME, 1, NAME_MAX) }

GET == << "G", "E", "T" >>

SP == << " " >>

HTTP11 == <<"H","T","T","P","/","1",".","1">>

\* URI paths of the requests the handler specifications send.
HandlerUris ==
  { <<"/","a",".","c","s","s">>, <<"/">>, <<"/","x">>,
    <<"/",".",".","/","w","2","/","s",".","t","x","t">>,
    <<"/",".",".","/","e","/","p">>, <<"/","d">>, <<"/","n",".","t","x","t">>,
    <<"/","%","z","z">>, SLASH \o LONG_NAME }

\* First lines: a GET for each URI path, and lines that are not a
\* three-name GET line (or are one only after whitespace splitting).
RequestLines ==
  { GET \o SP \o u \o SP \o HTTP11 : u \in HandlerUris }
  \cup
  { <<"g","e","t"," ","/","a",".","c","s","s"," ","H","T","T","P","/","1",".","1">>,
    <<"P","O","S","T"," ","/","a",".","c","s","s"," ","H","T","T","P","/","1",".","1">>,
    <<"G","E","T"," ","/","a",".","c","s","s">>,
    <<"G","E","T">>,
    <<"G","E","T"," ","/","a",".","c","s","s"," ","H","T","T","P","/","1",".","1"," ","x">>,
    <<"G","E","T","\t","/","a",".","c","s","s","\t","H","T","T","P","/","1",".","1">>,
    <<" ","G","E","T"," ","/","a",".","c","s","s"," ","H","T","T","P","/","1",".","1">>,
    <<"G","E","T"," ","/","a",".","c","s","s"," ","H","T","T","P","/","9">>,
    << >> }

\* What follows the first line: the header terminator, nothing, a header
\* and the terminator, a single CRLF, the terminator and body bytes.
RequestTails ==
  { CRLFCRLF, << >>, <<"\r","\n","H","o","s","t",":"," ","h","\r","\n","\r","\n">>, CRLF,
    CRLFCRLF \o <<"b","=","1">> }

Streams == { l \o t : l \in RequestLines, t \in RequestTails }

\* Where SpecHandler cuts a stream of n bytes in two: after the first byte,
\* and at each of the last three places (inside a terminator that ends it).
Cuts(n) == { k \in 1..(n - 1) : k = 1 \/ k >= n - 3 }

\* The ways a stream reaches recv: whole, or cut in two.
Chunkings(s) ==
  IF s = << >> THEN { << >> }
  ELSE { << s >> }
       \cup { << SubSeq(s, 1, k), SubSeq(s, k + 1, Len(s)) >> : k \in Cuts(Len(s)) }

\* Clients of SpecHandler: every stream, every cut, closing afterwards or not;
\* and for every first line a client that sends it with the terminator in
\* one segment and hangs up.
HandlerPeers ==
  UNION { { [ stream |-> s, chunks |-> ch, eof |-> e, hangs_up |-> FALSE ] :
              ch \in Chunkings(s), e \in BOOLEAN } : s \in Streams }
  \cup { [ stream |-> l \o CRLFCRLF, chunks |-> << l \o CRLFCRLF >>,
           eof |-> TRUE, hangs_up |-> TRUE ] : l \in RequestLines }

\* Clients of Spec: one asks for a file that is served, one for a path
\* outside the root and closes its sending side before the blank line.
ServerStreams ==
  { GET \o SP \o <<"/","a",".","c","s","s">> \o SP \o HTTP11 \o CRLFCRLF,
    GET \o SP \o <<"/",".",".","/","e","/","p">> \o SP \o HTTP11 \o CRLF }

ServerPeers == { [ stream |-> s, chunks |-> << s >>, eof |-> TRUE, hangs_up |-> TRUE ] : s \in ServerStreams }

\* The document root Spec serves.
ServerRoots == { <<"/","w">> }

(***************************************************************************)
(* Specifications.                                                         *)
(***************************************************************************)
\* The state once start_server has bound the socket and printed its banner.
InitWith(roots) ==
  /\ now = 0
  /\ doc_root \in roots
  /\ server = "accepting"
  /\ pc = [c \in Conns |-> "none"]
  /\ peer = [c \in Conns |-> NoPeer]
  /\ request_data = [c \in Conns |-> << >>]
  /\ read_end = [c \in Conns |-> ""]
  /\ uri_path = [c \in Conns |-> << >>]
  /\ response_bytes = [c \in Conns |-> << >>]
  /\ opened = [c \in Conns |-> << >>]
  /\ sent = [c \in Conns |-> << >>]
  /\ closes = [c \in Conns |-> 0]
  /\ exc = [c \in Conns |-> "None"]
  /\ events = [c \in Conns |-> << >>]
  /\ accept_errors = 0
  /\ mime_path = << >>
  /\ mime_type = << >>

Init == InitWith(ServerRoots)

InitHandler == InitWith(DocRoots)

Handler(c) ==
  \/ Recv(c)
  \/ RecvEof(c)
  \/ RecvError(c)
  \/ Parse(c)
  \/ Build(c)
  \/ Send(c)
  \/ SendError(c)
  \/ Close(c)

\* The server: the accept loop and up to NumConns handler threads.
Next ==
  \/ \E c \in Conns, p \in ServerPeers : Accept(c, p)
  \/ \E c \in Conns : Handler(c)
  \/ Tick

Spec == Init /\ [][Next]_vars

\* Clients of SpecLive, each of which sends the terminator or closes its
\* sending side: a served file and a missing one with the terminator and
\* the side kept open, a directory and a request that is not GET without the
\* terminator before closing, and a client that closes having sent nothing.
LivePeers ==
  { [ stream |-> s, chunks |-> << s >>, eof |-> FALSE, hangs_up |-> TRUE ] :
      s \in { GET \o SP \o <<"/","a",".","c","s","s">> \o SP \o HTTP11 \o CRLFCRLF,
              GET \o SP \o <<"/","x">> \o SP \o HTTP11 \o CRLFCRLF } }
  \cup { [ stream |-> s, chunks |-> << s >>, eof |-> TRUE, hangs_up |-> TRUE ] :
           s \in { GET \o SP \o <<"/","d">> \o SP \o HTTP11 \o CRLF,
                   <<"P","O","S","T">> \o SP \o SLASH \o SP \o HTTP11 \o CRLF } }
  \cup { [ stream |-> << >>, chunks |-> << >>, eof |-> TRUE, hangs_up |-> TRUE ] }

\* A step of the handler of c in which the socket operation it is at
\* returns without an error.
Returns(c) == Recv(c) \/ RecvEof(c) \/ Send(c) \/ Close(c)

\* One connection under fair scheduling: every socket operation the
\* handler blocks in returns when it can (a socket error may or may not
\* happen), and the thread, once it has the bytes, is scheduled to run
\* lines 130-147 and the call of line 150 to their end: it does not stay
\* for ever before them.
NextLive ==
  \/ \E p \in LivePeers : Accept(1, p)
  \/ Handler(1)
  \/ Tick

SpecLive ==
  /\ InitHandler
  /\ [][NextLive]_vars
  /\ WF_vars(Returns(1))
  /\ []<>(pc[1] # "parse")
  /\ []<>(pc[1] # "build")

\* Clients of SpecServer: one whose file is served; one whose request makes
\* build_response raise, sent without the blank line before closing; one
\* that sends a request line and then neither the blank line nor anything
\* else, keeping its side open.
ServerFaultPeers ==
  { [ stream |-> s, chunks |-> << s >>, eof |-> TRUE, hangs_up |-> TRUE ] :
      s \in { GET \o SP \o <<"/","a",".","c","s","s">> \o SP \o HTTP11 \o CRLFCRLF,
              GET \o SP \o <<"/","d">> \o SP \o HTTP11 \o CRLF } }
  \cup { [ stream |-> s, chunks |-> << s >>, eof |-> FALSE, hangs_up |-> TRUE ] :
           s \in { GET \o SP \o SLASH \o SP \o HTTP11 \o CRLF } }

\* The server with its failures: socket errors and exceptions in the
\* handlers, exceptions in the accept loop, the interrupt.
NextServer ==
  \/ \E c \in Conns, p \in ServerFaultPeers : Accept(c, p)
  \/ AcceptError
  \/ Interrupt
  \/ \E c \in Conns : Handler(c)

SpecServer == Init /\ [][NextServer]_vars

\* One connection, with every client of HandlerPeers.
NextHandler ==
  \/ \E p \in HandlerPeers : Accept(1, p)
  \/ Handler(1)
  \/ Tick

SpecHandler == InitHandler /\ [][NextHandler]_vars

\* build_response alone: connection 1 stands at line 150 with a URI path
\* drawn from UriPaths.
InitResolve ==
  /\ now = 0
  /\ doc_root \in DocRoots
  /\ server = "accepting"
  /\ pc = [c \in Conns |-> IF c = 1 THEN "build" ELSE "none"]
  /\ peer = [c \in Conns |-> NoPeer]
  /\ request_data = [c \in Conns |-> << >>]
  /\ read_end = [c \in Conns |-> ""]
  /\ \E u \in UriPaths : uri_path = [c \in Conns |-> IF c = 1 THEN u ELSE << >>]
  /\ response_bytes = [c \in Conns |-> << >>]
  /\ opened = [c \in Conns |-> << >>]
  /\ sent = [c \in Conns |-> << >>]
  /\ closes = [c \in Conns |-> 0]
  /\ exc = [c \in Conns |-> "None"]
  /\ events = [c \in Conns |-> << >>]
  /\ accept_errors = 0
  /\ mime_path = << >>
  /\ mime_type = << >>

NextResolve == Build(1)

SpecResolve == InitResolve /\ [][NextResolve]_vars

\* A call of get_mime_type (line 99, or any caller) on the path mime_path.
GetMimeType ==
  /\ mime_type = << >>
  /\ mime_type' = get_mime_type(mime_path)
  /\ UNCHANGED << now, doc_root, server, pc, peer, request_data, read_end, uri_path,
                  response_bytes, opened, sent, closes, exc, events, accept_errors,
                  mime_path >>

\* The paths SpecMime calls get_mime_type on: a directory part, a stem and
\* a suffix, so that dots occur in directory components, in the final
\* segment, in both and in neither, with every extension of the table, in
\* lower, upper and mixed case.
MimeDirs ==
  { << >>, <<"/","w","/">>, <<".","/">>, <<".",".","/">>, <<"d",".","c","s","s","/">>,
    <<"/","a",".","b","/","c",".","t","x","t","/">> }

MimeStems == { << >>, <<"a">>, <<"a",".","c","s","s">>, <<"R","E","A","D","M","E">> }

MimeSuffixes ==
  { << >>, DOT, SLASH, <<".","C","S","S">>, <<".","H","t","m","l">>, <<".","J","P","G">>,
    <<".","b","a","k">>, <<".","c","s","s","x">>, <<".","\\u212a">>,
    <<".","G","\\u0130","F">> }
  \cup { DOT \o m[1] : m \in MIME_TYPES }

MimePaths == { d \o st \o sf : d \in MimeDirs, st \in MimeStems, sf \in MimeSuffixes }

InitMime ==
  /\ now = 0
  /\ doc_root \in ServerRoots
  /\ server = "accepting"
  /\ pc = [c \in Conns |-> "none"]
  /\ peer = [c \in Conns |-> NoPeer]
  /\ request_data = [c \in Conns |-> << >>]
  /\ read_end = [c \in Conns |-> ""]
  /\ uri_path = [c \in Conns |-> << >>]
  /\ response_bytes = [c \in Conns |-> << >>]
  /\ opened = [c \in Conns |-> << >>]
  /\ sent = [c \in Conns |-> << >>]
  /\ closes = [c \in Conns |-> 0]
  /\ exc = [c \in Conns |-> "None"]
  /\ events = [c \in Conns |-> << >>]
  /\ accept_errors = 0
  /\ mime_path \in MimePaths
  /\ mime_type = << >>

NextMime == GetMimeType

SpecMime == InitMime /\ [][NextMime]_vars

(***************************************************************************)
(* Reading a response off the wire, as a client does.                      *)
(***************************************************************************)
IsPrefix(a, b) == Len(a) <= Len(b) /\ SubSeq(b, 1, Len(a)) = a

\* The status line: everything before the first CRLF.
StatusLineOf(response) ==
  LET i == find(response, CRLF, 1)
  IN IF i = 0 THEN response ELSE SubSeq(response, 1, i - 1)

\* The header lines between the status line and the blank line.
HeaderLinesOf(response) ==
  Tail(split(SubSeq(response, 1, find(response, CRLFCRLF, 1) - 1), CRLF))

\* The bytes after the blank line.
BodyOf(response) == SubSeq(response, find(response, CRLFCRLF, 1) + 4, Len(response))

\* The values of the header lines with the given name.
HeaderValues(response, name) ==
  LET lines == HeaderLinesOf(response) IN
  { SubSeq(lines[i], Len(name) + 3, Len(lines[i])) :
      i \in { j \in 1..Len(lines) : startswith(lines[j], name \o << ":", " " >>) } }

\* The number a string of decimal digits writes.
RECURSIVE ParseNat(_)
ParseNat(ds) ==
  IF ds = << >> THEN 0
  ELSE 10 * ParseNat(SubSeq(ds, 1, Len(ds) - 1))
       + (CHOOSE k \in 0..9 : DIGITS[k + 1] = ds[Len(ds)])

IsDigits(ds) == ds # << >> /\ \A i \in 1..Len(ds) : \E k \in 1..10 : DIGITS[k] = ds[i]

STATUS_200 == <<"H","T","T","P","/","1",".","1"," ","2","0","0"," ","O","K">>

STATUS_400 == <<"H","T","T","P","/","1",".","1"," ","4","0","0"," ","B","a","d"," ","R","e","q","u","e","s","t">>

STATUS_404 == <<"H","T","T","P","/","1",".","1"," ","4","0","4"," ","N","o","t"," ","F","o","u","n","d">>

\* Segment-wise containment of canonical absolute paths: p is root, or root
\* is a proper ancestor directory of p.
SegmentWithin(p, root) ==
  p = root \/ startswith(p, IF endswith(root, SLASH) THEN root ELSE root \o SLASH)

\* The canonical absolute path a request for uri names under the root.
RequestedPath(uri, root) == abspath(full_path_of(unquote(uri), root))

\* A % that is not followed by two hexadecimal digits.
MalformedPercent(uri) ==
  \E i \in 1..Len(uri) :
    /\ uri[i] = "%"
    /\ ~ (i + 2 <= Len(uri) /\ is_hex(uri[i + 1]) /\ is_hex(uri[i + 2]))

\* The handler of c has ended: it returned, or an exception ended its thread.
Ended(c) == pc[c] \in { "done", "died" }

(***************************************************************************)
(* Claims.                                                                 *)
(***************************************************************************)
\* C1: traversal safety.  Whatever the URI path and the document root,
\* build_response answers 404 or reads a file whose canonical absolute path
\* is the document root or lies inside its subtree, segment-wise; it never
\* reads a file outside it.  (Stated as the claim has it; the code's raw
\* string prefix test lets a sibling such as /w2 through.)
C1_TraversalSafety ==
  \A c \in Conns :
    /\ pc[c] = "send" =>
         \/ StatusLineOf(response_bytes[c]) = STATUS_404
         \/ opened[c] # << >> /\ SegmentWithin(opened[c], abspath(doc_root))
    /\ opened[c] # << >> => SegmentWithin(opened[c], abspath(doc_root))

\* C2: on every path through handle_request the client socket has been
\* closed exactly once when the handler ends.  (Stated as the claim has it;
\* an exception build_response lets through ends the thread before close.)
C2_ClosedExactlyOnce ==
  \A c \in Conns : Ended(c) => closes[c] = 1

\* C3: every failure to load a file whose path passed the root check ends in
\* a 404 response, and none ends the handler without a response.  (Stated as
\* the claim has it; only FileNotFoundError is caught.)
C3_LoadFailureIs404 ==
  \A c \in Conns :
    ( /\ pc[c] \in { "send", "close", "done", "died" }
      /\ uri_path[c] # << >>
      /\ inside_root(RequestedPath(uri_path[c], doc_root), abspath(doc_root))
      /\ open_rb(full_path_of(unquote(uri_path[c]), doc_root)).exc # "None" )
    => ( /\ pc[c] # "died"
         /\ StatusLineOf(response_bytes[c]) = STATUS_404
         /\ BodyOf(response_bytes[c]) = NOT_FOUND_HTML
         /\ (pc[c] = "done" => closes[c] = 1) )

\* C4: a URI path with a % that is not followed by two hexadecimal digits is
\* answered 400 Bad Request, and no file is looked up.  (Stated as the claim
\* has it; unquote keeps such a % and raises nothing.)
C4_MalformedPercentIs400 ==
  \A c \in Conns :
    ( pc[c] \in { "send", "died" } /\ MalformedPercent(uri_path[c]) )
    => ( pc[c] = "send" /\ StatusLineOf(response_bytes[c]) = STATUS_400 )

\* C8: every status line written is 200 OK, 400 Bad Request or 404 Not
\* Found, and a request whose resolved path is outside the document root is
\* answered 404, never 200.  (Stated as the claim has it; see C1.)
C8_StatusesAndEscapeIs404 ==
  \A c \in Conns :
    pc[c] = "send" =>
      /\ StatusLineOf(response_bytes[c]) \in { STATUS_200, STATUS_400, STATUS_404 }
      /\ ( ~ SegmentWithin(RequestedPath(uri_path[c], doc_root), abspath(doc_root))
           => StatusLineOf(response_bytes[c]) = STATUS_404 )

\* The names the first line of a buffer splits into on whitespace.
FirstLineTokens(data) == split_ws(split(data, CRLF)[1], << >>)

\* The first line is exactly three names and the first is GET.
ThreeTokenGet(data) ==
  LET toks == FirstLineTokens(data) IN Len(toks) = 3 /\ toks[1] = GET

\* The client of c sent bytes without the header terminator and closed its
\* sending side, and handle_request has read them all.
UnterminatedAtEof(c) ==
  /\ peer[c].stream # << >>
  /\ ~ contains(peer[c].stream, CRLFCRLF)
  /\ peer[c].eof
  /\ request_data[c] = peer[c].stream
  /\ read_end[c] = "eof"

\* C5, as the claim has it: bytes without the header terminator followed by
\* the client's close, even a complete three-name GET line, or a first line
\* of one name, end with the connection closed and no byte written.
C5_NoTerminatorNoBytes ==
  \A c \in Conns :
    ( Ended(c) /\ read_end[c] \in { "eof", "terminator" }
      /\ ( UnterminatedAtEof(c) \/ Len(FirstLineTokens(request_data[c])) = 1 ) )
    => sent[c] = << >>

\* C5, amended: a buffer that lacks the header terminator when the client
\* closes is parsed like any other.  If its first line is not a three-name
\* GET line (a line of one name among them, with or without terminator) the
\* connection is closed once with no byte written; if it is one,
\* build_response is called for its URI path and only bytes of that
\* response are written.
C5_UnterminatedIsParsed ==
  \A c \in Conns :
    ( Ended(c) /\ read_end[c] \in { "eof", "terminator" }
      /\ ( UnterminatedAtEof(c) \/ Len(FirstLineTokens(request_data[c])) = 1 ) )
    => IF ThreeTokenGet(request_data[c])
       THEN /\ uri_path[c] = FirstLineTokens(request_data[c])[2]
            /\ response_bytes[c] # << >> \/ exc[c] # "None"
            /\ IsPrefix(sent[c], response_bytes[c])
       ELSE sent[c] = << >> /\ pc[c] = "done" /\ closes[c] = 1

\* C5 witness: an unterminated three-name GET line was read to EOF and its
\* response written in full before the close.
C5_Witness ==
  \E c \in Conns :
    /\ pc[c] = "done" /\ UnterminatedAtEof(c) /\ ThreeTokenGet(request_data[c])
    /\ sent[c] # << >> /\ sent[c] = response_bytes[c] /\ closes[c] = 1

\* C6: when the first line of the buffer is not exactly three
\* whitespace-separated names, or its first name is not GET in upper case,
\* the handler writes nothing and closes; bytes are written only for a
\* three-name line whose method is GET.
C6_OnlyThreeTokenGetAnswered ==
  \A c \in Conns :
    /\ sent[c] # << >> => ThreeTokenGet(request_data[c])
    /\ ~ ThreeTokenGet(request_data[c]) =>
         /\ pc[c] \in { "none", "recv", "parse", "done" }
         /\ response_bytes[c] = << >>
         /\ pc[c] = "done" => closes[c] = 1 /\ sent[c] = << >>

\* C6 witness: a three-name line whose method is not GET in upper case
\* ended with the socket closed and nothing written.
C6_Witness ==
  \E c \in Conns :
    /\ pc[c] = "done" /\ request_data[c] = peer[c].stream
    /\ Len(FirstLineTokens(request_data[c])) = 3
    /\ lower(FirstLineTokens(request_data[c])[1]) = lower(GET)
    /\ FirstLineTokens(request_data[c])[1] # GET
    /\ sent[c] = << >> /\ closes[c] = 1

\* The body each kind of response carries: the bytes of the file read, or
\* the error page of its status.
LoadedBody(c) ==
  IF opened[c] # << >> THEN FileSystem[opened[c]].data
  ELSE IF StatusLineOf(response_bytes[c]) = STATUS_400 THEN BAD_REQUEST_HTML
  ELSE IF inside_root(RequestedPath(uri_path[c], doc_root), abspath(doc_root))
       THEN NOT_FOUND_HTML
  ELSE SECURITY_HTML

\* C7: in every response built, the Content-Length header is the decimal
\* count of the bytes after the blank line, those bytes are the loaded bytes
\* unchanged, and what is written to the socket is that response or a prefix
\* of it: nothing follows the body.
C7_ContentLengthExact ==
  \A c \in Conns :
    /\ response_bytes[c] # << >> =>
         /\ contains(response_bytes[c], CRLFCRLF)
         /\ Cardinality(HeaderValues(response_bytes[c],
               <<"C","o","n","t","e","n","t","-","L","e","n","g","t","h">>)) = 1
         /\ \A v \in HeaderValues(response_bytes[c],
               <<"C","o","n","t","e","n","t","-","L","e","n","g","t","h">>) :
              IsDigits(v) /\ ParseNat(v) = Len(BodyOf(response_bytes[c]))
         /\ BodyOf(response_bytes[c]) = LoadedBody(c)
    /\ IsPrefix(sent[c], response_bytes[c])
    /\ pc[c] = "send" => sent[c] = << >>

\* C7 witness: a 200 response whose body itself holds CRLF CRLF was written
\* in full and the connection closed.
C7_Witness ==
  \E c \in Conns :
    /\ pc[c] = "done" /\ sent[c] = response_bytes[c] /\ sent[c] # << >>
    /\ StatusLineOf(sent[c]) = STATUS_200
    /\ contains(BodyOf(sent[c]), CRLFCRLF)

IsDateLine(line) == startswith(line, <<"D","a","t","e",":"," ">>)

\* Two responses are the same, or agree in the status line, in every header
\* line at the same place other than a Date line, and in the body.
SameButDate(a, b) ==
  \/ a = b
  \/ LET ha == HeaderLinesOf(a)
         hb == HeaderLinesOf(b)
     IN  /\ StatusLineOf(a) = StatusLineOf(b)
         /\ Len(ha) = Len(hb)
         /\ \A i \in 1..Len(ha) :
              \/ ha[i] = hb[i]
              \/ IsDateLine(ha[i]) /\ IsDateLine(hb[i])
         /\ BodyOf(a) = BodyOf(b)

\* What the request of c's client gets when it is the only one handled:
\* build_response for the URI path of its own first line.
AloneOutcome(c) == build_response(FirstLineTokens(peer[c].stream)[2], doc_root)

\* C9: concurrency isolation.  With several connections handled at once, in
\* every interleaving, each handler's buffer holds bytes of its own client
\* only, and what it builds and writes is what its own request gets when
\* handled alone: the same exception or, the Date apart, the same response.
C9_Isolation ==
  \A c \in Conns :
    /\ IsPrefix(request_data[c], peer[c].stream)
    /\ pc[c] \in { "send", "close", "done", "died" } /\ read_end[c] # "error" =>
         /\ ThreeTokenGet(peer[c].stream)
         /\ LET alone == AloneOutcome(c)
            IN  /\ exc[c] = alone.exc
                /\ IF exc[c] = "None"
                   THEN SameButDate(response_bytes[c], alone.bytes)
                   ELSE response_bytes[c] = << >>
         /\ IsPrefix(sent[c], response_bytes[c])

\* C9 witness: two connections have ended, one answered 200 with the file
\* it asked for, the other 404 for its path outside the root.
C9_Witness ==
  \E c, d \in Conns :
    /\ pc[c] = "done" /\ pc[d] = "done"
    /\ sent[c] = response_bytes[c] /\ sent[d] = response_bytes[d]
    /\ sent[c] # << >> /\ sent[d] # << >>
    /\ StatusLineOf(sent[c]) = STATUS_200
    /\ BodyOf(sent[c]) = FileSystem[<<"/","w","/","a",".","c","s","s">>].data
    /\ StatusLineOf(sent[d]) = STATUS_404
    /\ BodyOf(sent[d]) = SECURITY_HTML

\* C10: determinism.  Two connections that carry the same GET request get
\* responses equal byte for byte in the status line, the Server,
\* Content-Type, Content-Length and Connection headers and the body; only
\* the Date header may differ.
C10_Determinism ==
  \A c, d \in Conns :
    ( /\ c < d
      /\ peer[c].stream = peer[d].stream
      /\ response_bytes[c] # << >>
      /\ response_bytes[d] # << >> )
    => SameButDate(response_bytes[c], response_bytes[d])

\* C10 witness: the same request was answered 200 in full on two
\* connections, in different seconds, so that the two responses differ.
C10_Witness ==
  \E c, d \in Conns :
    /\ c # d
    /\ peer[c].stream = peer[d].stream
    /\ pc[c] = "done" /\ pc[d] = "done"
    /\ sent[c] = response_bytes[c] /\ sent[d] = response_bytes[d]
    /\ StatusLineOf(sent[c]) = STATUS_200 /\ StatusLineOf(sent[d]) = STATUS_200
    /\ sent[c] # sent[d]

\* The file a decoded path names under the document root: the root, a
\* slash, the path.
DocumentFile(decoded, root) == root \o SLASH \o decoded

\* build_response has acted for connection c.
Built(c) == pc[c] \in { "send", "close", "done", "died" } /\ uri_path[c] # << >>

\* C11: default document.  When the decoded path ends with "/", the file
\* looked up is that path with index.html appended, and when that file
\* exists and is readable the response is 200 with exactly its bytes; a
\* decoded path that does not end with "/" is looked up as it is.  (Stated as
\* the claim has it, for every request: a path such as "/../" names an
\* index.html that exists above the root and is answered 404.)
C11_DefaultDocument ==
  \A c \in Conns :
    Built(c) =>
      LET decoded == unquote(uri_path[c])
          looked_up == IF endswith(decoded, SLASH) THEN decoded \o INDEX_HTML ELSE decoded
          f == open_rb(DocumentFile(looked_up, doc_root))
      IN /\ endswith(decoded, SLASH) /\ f.exc = "None" =>
              /\ exc[c] = "None"
              /\ StatusLineOf(response_bytes[c]) = STATUS_200
              /\ BodyOf(response_bytes[c]) = f.data
              /\ opened[c] = f.real
         /\ opened[c] # << >> => opened[c] = f.real

\* C11, amended: the same for every request whose looked-up path passes the
\* containment test of line 89; a request that fails it is answered 404
\* whether or not an index.html exists where it points.
C11_DefaultDocumentWithinRoot ==
  \A c \in Conns :
    Built(c) =>
      LET decoded == unquote(uri_path[c])
          looked_up == IF endswith(decoded, SLASH) THEN decoded \o INDEX_HTML ELSE decoded
          f == open_rb(DocumentFile(looked_up, doc_root))
          within == inside_root(abspath(DocumentFile(looked_up, doc_root)), abspath(doc_root))
      IN /\ endswith(decoded, SLASH) /\ f.exc = "None" /\ within =>
              /\ exc[c] = "None"
              /\ StatusLineOf(response_bytes[c]) = STATUS_200
              /\ BodyOf(response_bytes[c]) = f.data
              /\ opened[c] = f.real
         /\ ~ within => /\ exc[c] = "None"
                        /\ StatusLineOf(response_bytes[c]) = STATUS_404
                        /\ opened[c] = << >>
         /\ opened[c] # << >> => opened[c] = f.real

\* C11 witness: a request for the directory path /d/ under the root /w was
\* answered 200 with the bytes of /w/d/index.html.
C11_Witness ==
  /\ pc[1] = "send"
  /\ doc_root = <<"/","w">>
  /\ unquote(uri_path[1]) = <<"/","d","/">>
  /\ opened[1] = <<"/","w","/","d","/">> \o INDEX_HTML
  /\ StatusLineOf(response_bytes[1]) = STATUS_200
  /\ BodyOf(response_bytes[1]) = FileSystem[<<"/","w","/","d","/">> \o INDEX_HTML].data

\* The final segment of a path: what follows its last "/".
FinalSegment(path) == LET segs == split(path, SLASH) IN segs[Len(segs)]

\* The reference rule for the content type of a path: the part after the
\* last "." of the final segment, in lower case, looked up in the table;
\* the default when the final segment has no "." or the table has no entry.
ReferenceMimeType(path) ==
  LET final == FinalSegment(path) IN
  IF ~ contains(final, DOT) THEN DEFAULT_MIME_TYPE
  ELSE LET last_dot == CHOOSE i \in 1..Len(final) :
                          /\ final[i] = "."
                          /\ \A j \in (i + 1)..Len(final) : final[j] # "."
           ext == lower(SubSeq(final, last_dot + 1, Len(final)))
       IN IF \E m \in MIME_TYPES : m[1] = ext
          THEN (CHOOSE m \in MIME_TYPES : m[1] = ext)[2]
          ELSE DEFAULT_MIME_TYPE

\* C12: MIME resolution.  For every path, get_mime_type returns what the
\* reference rule on the final segment returns; a "." that occurs only in a
\* directory component selects the default type.
C12_MimeResolution ==
  mime_type # << >> =>
    /\ mime_type = ReferenceMimeType(mime_path)
    /\ ~ contains(FinalSegment(mime_path), DOT) => mime_type = DEFAULT_MIME_TYPE

\* C12 witness: get_mime_type has returned the default type for a path whose
\* only dots are in directory components, one of them before a table
\* extension.
C12_Witness ==
  /\ mime_path = <<"d",".","c","s","s","/","R","E","A","D","M","E">>
  /\ mime_type = DEFAULT_MIME_TYPE

\* The stage of the pipeline an event belongs to: reading, parsing,
\* resolving and loading, writing, closing.
Stage(e) ==
  CASE e \in { "recv", "recv_eof", "recv_error" } -> 1
    [] e = "parse" -> 2
    [] e = "build" -> 3
    [] e \in { "send", "send_error" } -> 4
    [] e = "close" -> 5

\* The positions of a log that hold an event of the given stage.
AtStage(log, n) == { i \in 1..Len(log) : Stage(log[i]) = n }

\* C13: within one connection the events are strictly ordered.  Every read
\* precedes the parse, the parse precedes the build, the build precedes the
\* write and the write precedes the close; parse, build, write and close
\* happen at most once each, a later stage is entered only through the one
\* before it (a close apart, which may end any stage), and nothing happens
\* on the socket after the close.
C13_StrictPipeline ==
  \A c \in Conns :
    LET log == events[c] IN
    /\ \A i, j \in 1..Len(log) : i < j => Stage(log[i]) <= Stage(log[j])
    /\ \A n \in 2..5 : Cardinality(AtStage(log, n)) <= 1
    /\ \A n \in 2..4 : AtStage(log, n) # { } => AtStage(log, n - 1) # { }
    /\ AtStage(log, 5) # { } => log[Len(log)] = "close"
    /\ AtStage(log, 5) # { } <=> closes[c] = 1
    /\ closes[c] \in { 0, 1 }
    /\ AtStage(log, 4) = { } => sent[c] = << >>
    /\ IsPrefix(sent[c], response_bytes[c])
    /\ Len(request_data[c]) > 0 => AtStage(log, 1) # { }

\* C13 witness: a handler read twice, parsed, built, wrote its response
\* and closed, in that order.
C13_Witness ==
  \E c \in Conns :
    /\ events[c] = << "recv", "recv", "parse", "build", "send", "close" >>
    /\ sent[c] = response_bytes[c] /\ sent[c] # << >>
    /\ closes[c] = 1

\* A step changes something that belongs to connection c.
Touched(c) ==
  \/ pc'[c] # pc[c] \/ peer'[c] # peer[c] \/ request_data'[c] # request_data[c]
  \/ read_end'[c] # read_end[c] \/ uri_path'[c] # uri_path[c]
  \/ response_bytes'[c] # response_bytes[c] \/ opened'[c] # opened[c]
  \/ sent'[c] # sent[c] \/ closes'[c] # closes[c] \/ exc'[c] # exc[c]
  \/ events'[c] # events[c]

\* The handler of c failed: a socket error in recv or sendall, or an
\* exception that left handle_request.
Failed(c) ==
  \/ pc[c] = "died"
  \/ \E i \in 1..Len(events[c]) : events[c][i] \in { "recv_error", "send_error" }

\* Every connection whose handler ran to its end without a failure of its
\* own has the outcome its request gets alone, whatever happened to the
\* others: nothing written for a request that is not served, the whole
\* response otherwise.
UnaffectedByOthers ==
  \A c \in Conns :
    pc[c] = "done" /\ ~ Failed(c) =>
      /\ closes[c] = 1
      /\ IF ThreeTokenGet(peer[c].stream)
         THEN LET alone == AloneOutcome(c)
              IN /\ alone.exc = "None"
                 /\ SameButDate(response_bytes[c], alone.bytes)
                 /\ sent[c] = response_bytes[c]
         ELSE sent[c] = << >>

\* A step that is a failure of connection c (its handler dies, or a socket
\* error is logged) touches nothing of another connection and leaves the
\* accept loop as it is.
FailureIsContained ==
  \A c \in Conns :
    ( /\ events'[c] # events[c] \/ pc'[c] # pc[c]
      /\ \/ pc'[c] = "died"
         \/ \E i \in (Len(events[c]) + 1)..Len(events'[c]) :
              events'[c][i] \in { "recv_error", "send_error" } )
    => /\ \A d \in Conns \ { c } : ~ Touched(d)
       /\ server' = server
       /\ accept_errors' = accept_errors

\* A step in which the accept loop catches an exception leaves it accepting
\* and touches no connection; the loop ends only in a step that touches no
\* connection either (the interrupt).
AcceptLoopSurvives ==
  /\ accept_errors' # accept_errors =>
       /\ server = "accepting" /\ server' = "accepting"
       /\ accept_errors' = accept_errors + 1
       /\ \A d \in Conns : ~ Touched(d)
  /\ server' # server =>
       /\ accept_errors' = accept_errors
       /\ \A d \in Conns : ~ Touched(d)

\* C14: failure containment.  A failure in one connection's handler changes
\* neither the outcome of any other connection nor the accept loop, and an
\* exception caught in the accept loop is counted as logged while the loop
\* goes on accepting.
C14_FailureContainment ==
  /\ []UnaffectedByOthers
  /\ [][FailureIsContained /\ AcceptLoopSurvives]_vars

\* C14 witness: the accept loop has logged an exception and is accepting;
\* the first connection's handler died on an exception, the second was
\* accepted, answered in full and closed.
C14_Witness ==
  /\ accept_errors > 0
  /\ server = "accepting"
  /\ pc[1] = "died"
  /\ pc[2] = "done" /\ ~ Failed(2)
  /\ sent[2] = response_bytes[2]
  /\ StatusLineOf(sent[2]) = STATUS_200

\* The handler of c is in its read loop with nothing to read: its client
\* has sent all it will send, without the blank line, and keeps its side
\* open.  Only a socket error can end this.
BlockedInRead(c) ==
  pc[c] = "recv" /\ peer[c].chunks = << >> /\ ~ peer[c].eof

\* The next connection slot, when there is one.
NextSlot(c) == pc[c] = "none" /\ \A d \in 1..(c - 1) : pc[d] # "none"

\* A socket operation of the handler of c that succeeds.
SocketStep(c) == Recv(c) \/ RecvEof(c) \/ Send(c) \/ Close(c)

\* C15: the accept loop never waits for a handler.  While the loop is
\* accepting, the next connection can be accepted whatever the handlers
\* started so far are doing, one blocked for ever in its read loop included,
\* and every handler at a socket operation that is not itself waiting for
\* its client can perform it whatever the others are doing.
C15_AcceptNeverWaits ==
  /\ \A c \in Conns :
       server = "accepting" /\ NextSlot(c) =>
         ENABLED (\E p \in ServerFaultPeers : Accept(c, p))
  /\ \A c \in Conns :
       pc[c] \in { "recv", "send", "close" } /\ ~ BlockedInRead(c) =>
         ENABLED SocketStep(c)

\* C15 witness: the first handler is blocked in its read loop, where it has
\* been since it was started; the second connection was accepted after it,
\* answered in full and closed, and the loop is still accepting.
C15_Witness ==
  /\ BlockedInRead(1) /\ request_data[1] # << >>
  /\ server = "accepting"
  /\ events[2] = << "recv", "parse", "build", "send", "close" >>
  /\ sent[2] = response_bytes[2]
  /\ StatusLineOf(sent[2]) = STATUS_200

\* Once the loop has ended it stays ended: no connection is accepted, no
\* exception is caught by it.
NoAcceptAfterShutdown ==
  server = "closed" =>
    /\ server' = "closed"
    /\ accept_errors' = accept_errors
    /\ \A c \in Conns : pc[c] = "none" => pc'[c] = "none"

\* The step that ends the loop touches no connection: no handler is
\* cancelled by it.
ShutdownCancelsNothing ==
  server = "accepting" /\ server' # "accepting" =>
    /\ server' = "closed"
    /\ \A c \in Conns : ~ Touched(c)

\* The interrupt can be handled whatever the handlers are doing, and a
\* handler at a socket operation can perform it after the loop has ended.
ShutdownWaitsForNothing ==
  /\ server = "accepting" => ENABLED Interrupt
  /\ \A c \in Conns :
       ( /\ server = "closed"
         /\ pc[c] \in { "recv", "send", "close" }
         /\ ~ BlockedInRead(c) )
       => ENABLED SocketStep(c)

\* C16: shutdown.  When the loop handles the interrupt the listening socket
\* is closed and the loop ends; no connection is accepted afterwards; the
\* handlers started before are neither waited for nor cancelled by it.
C16_Shutdown ==
  /\ []ShutdownWaitsForNothing
  /\ [][NoAcceptAfterShutdown /\ ShutdownCancelsNothing]_vars

\* C16 witness: the loop has ended while the first handler is about to
\* write its response and the second connection slot was never used.
C16_Witness ==
  /\ server = "closed"
  /\ pc[1] = "send" /\ response_bytes[1] # << >>
  /\ pc[2] = "none"

\* C17: after a socket error in the read loop or in the write, the handler
\* does nothing more on the socket than close it: the error is followed by
\* the close and by nothing else, a read error leaves no response built or
\* written, a write error leaves what was written before it; and an empty
\* buffer at EOF is closed at once with nothing parsed, built or written.
C17_ErrorGoesToClose ==
  \A c \in Conns :
    LET log == events[c] IN
    /\ \A i \in 1..Len(log) :
         log[i] \in { "recv_error", "send_error" } =>
           /\ i = Len(log) \/ (i + 1 = Len(log) /\ log[i + 1] = "close")
           /\ i = Len(log) => pc[c] = "close" /\ log[i] = "send_error"
    /\ read_end[c] = "error" =>
         /\ log[Len(log)] = "close" /\ pc[c] = "done" /\ closes[c] = 1
         /\ response_bytes[c] = << >> /\ sent[c] = << >>
    /\ ( /\ AtStage(log, 4) # { }
         /\ \A i \in AtStage(log, 4) : log[i] = "send_error" )
       => sent[c] # response_bytes[c] /\ IsPrefix(sent[c], response_bytes[c])
    /\ read_end[c] = "eof" /\ request_data[c] = << >> /\ pc[c] # "parse" =>
         /\ log = << "recv_eof", "close" >>
         /\ pc[c] = "done" /\ closes[c] = 1
         /\ response_bytes[c] = << >> /\ sent[c] = << >>

\* C17 witness: a write failed part of the way and the handler closed the
\* socket without writing again.
C17_Witness ==
  \E c \in Conns :
    /\ events[c] = << "recv", "parse", "build", "send_error", "close" >>
    /\ sent[c] # << >> /\ sent[c] # response_bytes[c]
    /\ pc[c] = "done" /\ closes[c] = 1

\* The other two cases of C17 happen as well: a read error after some bytes
\* were received, and an empty buffer at EOF.
C17_WitnessReadError ==
  \E c \in Conns :
    /\ events[c] = << "recv", "recv_error", "close" >>
    /\ request_data[c] # << >> /\ sent[c] = << >>

C17_WitnessEmptyEof ==
  \E c \in Conns :
    /\ events[c] = << "recv_eof", "close" >>
    /\ pc[c] = "done" /\ closes[c] = 1

\* The first CRLF-delimited line of some bytes.
FirstLine(data) == split(data, CRLF)[1]

\* The read loop of c has ended without a socket error.
ReadDone(c) == read_end[c] \in { "terminator", "eof" }

\* C18: the read loop ends exactly when the buffer holds CRLF CRLF or a read
\* returns nothing.  While the loop runs the buffer has no terminator; it
\* ends on the terminator with a buffer that has one, and on EOF with the
\* whole stream, which has none.  However the client's bytes are split
\* over the reads, the buffer handed on begins with the first line of the
\* stream, and what the handler builds and writes is what the stream alone
\* determines.
C18_ReadLoopAndSplits ==
  \A c \in Conns :
    /\ IsPrefix(request_data[c], peer[c].stream)
    /\ pc[c] = "recv" => ~ contains(request_data[c], CRLFCRLF)
    /\ read_end[c] = "terminator" => contains(request_data[c], CRLFCRLF)
    /\ read_end[c] = "eof" =>
         request_data[c] = peer[c].stream /\ ~ contains(request_data[c], CRLFCRLF)
    /\ ReadDone(c) => FirstLine(request_data[c]) = FirstLine(peer[c].stream)
    /\ ReadDone(c) /\ pc[c] \in { "send", "close", "done", "died" } =>
         IF ThreeTokenGet(peer[c].stream)
         THEN LET alone == AloneOutcome(c)
              IN /\ exc[c] = alone.exc
                 /\ exc[c] = "None" => SameButDate(response_bytes[c], alone.bytes)
                 /\ IsPrefix(sent[c], response_bytes[c])
         ELSE pc[c] = "done" /\ sent[c] = << >> /\ response_bytes[c] = << >>

\* C18 witness: the stream was split after its terminator, so that the
\* loop ended on the first read and the body bytes were never read; the
\* buffer is shorter than the stream and the request was answered in full.
C18_Witness ==
  \E c \in Conns :
    /\ events[c] = << "recv", "parse", "build", "send", "close" >>
    /\ read_end[c] = "terminator"
    /\ request_data[c] # peer[c].stream
    /\ peer[c].chunks # << >>
    /\ StatusLineOf(sent[c]) = STATUS_200 /\ sent[c] = response_bytes[c]

\* The terminator straddles two reads as well: after the first read the
\* buffer ends inside it and the loop goes on.
C18_WitnessStraddle ==
  \E c \in Conns :
    /\ pc[c] = "recv" /\ events[c] = << "recv" >>
    /\ endswith(request_data[c], << "\r", "\n", "\r" >>)
    /\ peer[c].chunks = << << "\n" >> >>

\* C19: the outcome depends only on the first CRLF-delimited line of the
\* buffer, and for a line of three names only on the first two.  When the
\* handler has ended without a socket error, a line whose first name is GET
\* and which has three names got what build_response gives for its second
\* name, whatever the third name is and whatever follows the line; any
\* other line got nothing.  Two requests with the same method and URI
\* names therefore get the same response, the Date apart.
C19_FirstLineOnly ==
  \A c \in Conns :
    ReadDone(c) /\ pc[c] \in { "done", "died" } =>
      LET tokens == split_ws(FirstLine(request_data[c]), << >>) IN
      IF Len(tokens) = 3 /\ tokens[1] = GET
      THEN LET r == build_response(tokens[2], doc_root)
           IN /\ exc[c] = r.exc
              /\ exc[c] = "None" =>
                   /\ SameButDate(response_bytes[c], r.bytes)
                   /\ IsPrefix(sent[c], response_bytes[c])
                   /\ ~ Failed(c) => sent[c] = response_bytes[c]
      ELSE sent[c] = << >> /\ response_bytes[c] = << >> /\ exc[c] = "None"

\* C19 witness: a request whose version name is not HTTP/1.1 and whose
\* first line is followed by a header line was answered 200 in full with
\* the file its URI path names.
C19_Witness ==
  \E c \in Conns :
    /\ pc[c] = "done" /\ ~ Failed(c)
    /\ split_ws(FirstLine(request_data[c]), << >>)
         = << GET, <<"/","a",".","c","s","s">>, <<"H","T","T","P","/","9">> >>
    /\ sent[c] = response_bytes[c]
    /\ StatusLineOf(sent[c]) = STATUS_200
    /\ BodyOf(sent[c]) = FileSystem[<<"/","w","/","a",".","c","s","s">>].data

\* The other two variations are answered alike: header lines after an
\* HTTP/1.1 line, and body bytes after the blank line.
C19_WitnessHeaderAndBody ==
  \E c \in Conns :
    /\ pc[c] = "done" /\ ~ Failed(c)
    /\ \/ contains(request_data[c], <<"H","o","s","t",":">>)
       \/ endswith(request_data[c], <<"b","=","1">>)
    /\ StatusLineOf(sent[c]) = STATUS_200

\* C20: handler termination.  Every handler that was started eventually
\* ends with its socket closed, whatever the request.  (Stated as the claim
\* has it; a handler whose build_response raises ends without the close.)
C20_HandlerTerminates ==
  \A c \in Conns : (pc[c] = "recv") ~> (pc[c] = "done" /\ closes[c] = 1)

\* What holds in its place: every handler that was started eventually
\* ends, closed or with the exception that ended its thread.
C20_HandlerEnds ==
  \A c \in Conns : (pc[c] = "recv") ~> Ended(c)

=============================================================================
